---- MODULE Spec2Model ----
(***************************************************************************)
(* Two-page disruptor (tpd.hpp) driven by the async stream and its        *)
(* service (async_ostream.cpp).  Every shared-memory access that another  *)
(* thread can observe is a step of its own; what a thread does between     *)
(* two such accesses is part of the step.                                  *)
(*                                                                         *)
(* Spec, SpecMC        the queue: producers, drainers, service, destructor *)
(* SpecArena           one allocator::impl, word by word                   *)
(* SpecLife, -Fair     the polling and the waiting service with their      *)
(*                     worker thread, and the constructors of stream       *)
(* SpecPolling         the polling service draining two streams            *)
(* SpecWrite           async_write_some and its completion handler         *)
(* SpecLowPower        the low-power wrapper on an io_service, with the    *)
(*                     stream's queue (asio_service_wrappers.cpp)          *)
(* SpecShutdown        the destructors of the three wrappers               *)
(* SpecCommit          a consumer that commits its transaction twice       *)
(* SpecReentrant, -Fair  a work item that submits during the drain         *)
(* SpecSizes           one allocator::impl over sizes that grow the arena  *)
(* SpecWaiting, -Fair  the waiting service's worker on the queue           *)
(* SpecSubmit          the submit operations over every stream binding     *)
(***************************************************************************)
EXTENDS Naturals, Integers, Sequences, FiniteSets, TLC

\* ------------------------------------------------------------------ bounds
MaxSubmits == 3          \* submit operations of the first producer thread
MaxSubmitsOther == 1     \* submit operations of every other producer thread
MaxUserDrains == 1       \* calls of stream::try_drain by the user thread
MaxCouldntSwitch == 2    \* cap of consumer_couldnt_switch_ (a size_t in the code)
MaxAdds == 3             \* work items added to one arena
MaxDrains == 1           \* calls of allocator::impl::drain
MaxWork == 2             \* work items submitted while the service runs
MaxClears == 2           \* calls of allocator::impl::clear

\* ----------------------------------------------------------------- threads
Producers == {"p1", "p2"}
Drainers == {"svc", "dtor", "usr"}
Threads == Producers \cup Drainers
Pages == {1, 2}
NoThread == "none"
\* the submit operations a producer thread makes before it stops
Quota(p) == IF p = "p1" THEN MaxSubmits ELSE MaxSubmitsOther

Items == Producers \X (1..(MaxSubmits + 1))

VARIABLES
    \* tpd<allocator>
    inserting_, consuming_,
    last_inserted_sequence_number_, last_enqueued_sequence_number_,
    last_consumed_sequence_number_,
    seq_no_generator_, inserter_switched_pages_, consumer_couldnt_switch_,
    inserter_, consumer_,
    \* allocator (page1_, page2_)
    sequence_number_, chain,
    \* transactions and locals of the threads
    pc, buffer_, ptr, cursor, result, outcome, nsub, ncalls,
    \* service::impl and stream life cycle
    sync_, streams_, policy, destroying, freed, pendingAtDestroy,
    \* what the sink has seen, and history of switch_pages
    applied, switchLog, frustrated, commitsSince, raced, generations, switches

tpdVars == <<inserting_, consuming_, last_inserted_sequence_number_,
             last_enqueued_sequence_number_, last_consumed_sequence_number_,
             seq_no_generator_, inserter_switched_pages_,
             consumer_couldnt_switch_, inserter_, consumer_>>
pageVars == <<sequence_number_, chain>>
localVars == <<pc, buffer_, ptr, cursor, result, outcome, nsub, ncalls>>
svcVars == <<sync_, streams_, policy, destroying, freed, pendingAtDestroy>>
histVars == <<applied, switchLog, frustrated, commitsSince, raced, generations, switches>>
queueVars == <<tpdVars, pageVars, localVars, svcVars, histVars>>

VARIABLES
    \* allocator::impl (async_ostream.cpp:219-226) and the heap it owns
    first_, last_, cursor_, prev_cursor_, end_of_page_, last_allocated_, ep_,
    heap, npages, mem,
    \* the caller of the allocator: where it is, the walk of drain
    apc, walk, nadds, ndrains, nclears,
    \* what was added, applied, reported and destroyed
    added, kindOf, visited, breaks, reports, escaped, destroyed, wild,
    lastOp, firstBefore, lastBefore, heapBefore,
    \* the size given to the last call of allocate (line 165)
    requested

implVars == <<first_, last_, cursor_, prev_cursor_, end_of_page_, last_allocated_, ep_,
              heap, npages, mem>>
callerVars == <<apc, walk, nadds, ndrains, nclears>>
seenVars == <<added, kindOf, visited, breaks, reports, escaped, destroyed, wild,
              lastOp, firstBefore, lastBefore, heapBefore, requested>>
arenaVars == <<implVars, callerVars, seenVars>>


VARIABLES
    \* service_impl and waiting_service::impl (services.cpp:11-28, 84-92)
    stop_requested_, actually_stopped_, thread_, impl_thread_, service_kind,
    \* stream::impl (async_ostream.cpp:57-62) and what its constructor was given
    ostream_, istream_, owner_, supplied, wrapper,
    \* the worker thread, the thread that submits, the thread that stops
    wpc, ppc, ctl, work,
    \* what the worker did
    finalRun, runsAfterJoin

implThreadVars == <<stop_requested_, actually_stopped_, thread_, impl_thread_, service_kind>>
streamVars == <<ostream_, istream_, owner_, supplied, wrapper>>
lifeVars == <<implThreadVars, streamVars, wpc, ppc, ctl, work, finalRun, runsAfterJoin>>

VARIABLES
    \* the polling worker inside service::impl::run (async_ostream.cpp:291-303):
    \* last_consumed of the stream when the call began, the streams that
    \* drained a page during the last call, what the call returned, the
    \* streams it flushed
    lcsnAtRun, drainedInRun, run_result, flushed,
    \* a second registered stream: has it a committed page
    pending2,
    \* the work items whose submit had returned when stop() was called
    committedAtStop

pollVars == <<lcsnAtRun, drainedInRun, run_result, flushed, pending2, committedAtStop>>

VARIABLES
    \* the caller of stream::async_write_some: the bytes in its buffer now
    user_bytes,
    \* the async_write_some_work items in the queue (buffer_.copy_,
    \* buffer_.size_), and the one whose apply is running
    items_, applying,
    \* the sink: what it holds, its rdstate
    sink_bytes, rdstate,
    \* what was submitted, what wrote, what the completion handlers got
    submitted, writes, handled

writeVars == <<user_bytes, items_, applying, sink_bytes, rdstate, submitted, writes, handled>>

ExecThreads == {"e1", "e2"}

VARIABLES
    \* asio_service_wrapper (asio_service_wrappers.hpp:19-26) and
    \* asio_service_wrapper_low_power::draining_ (59)
    stopped_, queues_empty_, draining_,
    \* the io_service: the handlers posted and not yet started, has stop()
    \* been called, how many threads are inside io_service::run
    ioq, s_stopped, nworkers,
    \* poll_timer_ of asio_service_wrapper_low_enqueue_latency (38)
    poll_timer_,
    \* where each thread of the io_service is inside a handler, where the
    \* thread that destroys the wrapper is, the local of work_available_impl
    epc, dpc, loaded,
    \* a handler of the wrapper touched the wrapper after it was freed
    touchedFreed

asioVars == <<stopped_, queues_empty_, draining_, ioq, s_stopped, nworkers, poll_timer_,
              epc, dpc, loaded, touchedFreed>>

VARIABLES
    \* the submit operation that a thread is inside, with its argument
    submitting,
    \* the work items of the page in the order of their records, how many of
    \* them allocator::impl::drain has passed
    worklets, went_through,
    \* the pointers that apply has dereferenced, and how the process ended
    used, failed

submitVars == <<submitting, worklets, went_through, used, failed>>

moreVars == <<writeVars, asioVars, submitVars>>

extVars == <<arenaVars, lifeVars, pollVars, moreVars>>
vars == <<queueVars, extVars>>

\* ------------------------------------------------------------------ helpers
\* tpd::empty()
empty == last_inserted_sequence_number_ = last_consumed_sequence_number_

\* thread t holds a consume transaction that try_consume has bound and whose
\* commit has not begun: the page is being drained
Consuming(t) == buffer_[t] # 0 /\ pc[t] \in {"tc_load", "tc_stamp", "drain"}

ConsumeOpenOn(pg) == \E t \in Drainers : Consuming(t) /\ buffer_[t] = pg

\* allocator::impl::clear: the record chain becomes empty
\* the page handed back by the consumer is not cleared
ClearPage_skipped(pg) == chain

ClearPage(pg) == [chain EXCEPT ![pg] = << >>]

\* tpd.hpp:250,266 and 231: the consumer page holds a generation that has
\* not been consumed
Consumable == last_enqueued_sequence_number_ > last_consumed_sequence_number_

\* tpd.hpp:257 and 286: the inserter page holds a generation that has not
\* been handed to the consumer
SomethingToEnqueue == last_inserted_sequence_number_ > last_enqueued_sequence_number_

\* switch_pages without the temporary of line 300: consumer_ is assigned the
\* inserter_ that line 301 has overwritten already
switch_pages_no_temp(t, site) ==
    /\ inserter_' = consumer_
    /\ consumer_' = consumer_
    /\ last_enqueued_sequence_number_' = sequence_number_[consumer_]
    /\ switchLog' = [site |-> site,
                     inserting |-> (inserting_ = t),
                     consuming |-> (consuming_ = t),
                     asserted |-> (sequence_number_[consumer_] > last_enqueued_sequence_number_),
                     waited |-> IF frustrated THEN commitsSince ELSE 0]
    /\ frustrated' = FALSE
    /\ commitsSince' = 0
    /\ switches' = switches + 1

\* tpd::switch_pages (tpd.hpp:296-307), called by thread t from `site`.
\* The new consumer page is the old inserter page.  switchLog keeps which
\* locks the caller held, whether the assertion of line 305 held, and how
\* many producer commits went by since the consumer complained.
switch_pages(t, site) ==
    /\ inserter_' = consumer_
    /\ consumer_' = inserter_
    /\ last_enqueued_sequence_number_' = sequence_number_[inserter_]
    /\ switchLog' = [site |-> site,
                     inserting |-> (inserting_ = t),
                     consuming |-> (consuming_ = t),
                     asserted |-> (sequence_number_[inserter_] > last_enqueued_sequence_number_),
                     waited |-> IF frustrated THEN commitsSince ELSE 0]
    /\ frustrated' = FALSE
    /\ commitsSince' = 0
    /\ switches' = switches + 1

\* ---------------------------------------------------- the arena's memory
\* sizeof(std::size_t), asserted equal to sizeof(void*) (async_ostream.cpp:11)
WordBytes == 8
\* async_ostream.cpp:123: page_break holds a vtable pointer only
page_break_size_in_std_size_ts == 1
\* async_ostream.cpp:132: the size given to the first page
FirstPageBytes == 4096 - WordBytes * page_break_size_in_std_size_ts

\* sizeof of the work items added, and the sizes of their payloads (bytes)
AddSizes == {4000, 9000}
PayloadSizes == {5000}
\* what apply does: returns, or throws a boost::exception, a std::exception
\* or anything else
Kinds == {"ok", "boost", "std", "unknown"}

\* a pointer is a page and a word offset in its storage; NULL
NULL == <<0, 0>>
\* the words of memory the model tells apart
Zero == <<"zero", 0, 0>>
Link(a) == <<"link", a[1], a[2]>>
Obj(k) == <<"obj", k, 0>>
PageBreak == <<"page_break", 0, 0>>
Data == <<"data", 0, 0>>

Max(a, b) == IF a > b THEN a ELSE b

\* new std::size_t[] without the words of a page_break
AllocWords_no_page_break(size) == (size + WordBytes - 1) \div WordBytes

\* page::page (async_ostream.cpp:208-215): words allocated, and the offset
\* of storage_end_
AllocWords(size) == (size + WordBytes - 1) \div WordBytes + page_break_size_in_std_size_ts
EndOffset(size) == size \div WordBytes
\* (char*)storage_end_ - (char*)storage_begin_ (line 179)
StorageBytes(size) == WordBytes * EndOffset(size)

\* allocate, lines 167-168 and 192: the words the cursor advances by, for a
\* size that line 167 has decremented
Advance(size) == 1 + (size + WordBytes - 1) \div WordBytes

\* words an object of the given size covers
WordsOf(size) == (size + WordBytes - 1) \div WordBytes

\* *a = w
Store(m, a, w) == [x \in DOMAIN m \cup {a} |-> IF x = a THEN w ELSE m[x]]

\* an object of n words is written at a: its first word tells what it is, it
\* overwrites whatever the words it covers held
Fill(m, a, n, w) ==
    [x \in DOMAIN m \cup {a} |->
        IF x = a THEN w
        ELSE IF x[1] = a[1] /\ x[2] > a[2] /\ x[2] < a[2] + n THEN Data
        ELSE m[x]]

\* is the address inside the storage that the page allocated?
InStorage(h, a) == a[1] \in DOMAIN h /\ a[2] >= 0 /\ a[2] < AllocWords(h[a[1]].size)

\* before allocator::impl::impl has run
InitArena ==
    /\ first_ = 0 /\ last_ = 0
    /\ cursor_ = NULL /\ prev_cursor_ = NULL /\ end_of_page_ = NULL
    /\ last_allocated_ = NULL
    /\ ep_ = "NULL"
    /\ heap = << >> /\ npages = 0 /\ mem = << >>
    /\ apc = "none" /\ walk = NULL
    /\ nadds = 0 /\ ndrains = 0 /\ nclears = 0
    /\ added = << >> /\ kindOf = << >>
    /\ visited = << >> /\ breaks = 0 /\ reports = << >> /\ escaped = FALSE
    /\ destroyed = << >> /\ wild = FALSE
    /\ lastOp = "none" /\ firstBefore = 0 /\ lastBefore = 0 /\ heapBefore = {}
    /\ requested = 0

\* before any service or stream is constructed
InitLife ==
    /\ stop_requested_ = FALSE /\ actually_stopped_ = FALSE
    /\ thread_ = "not_a_thread" /\ impl_thread_ = "not_a_thread"
    /\ service_kind = "none"
    /\ ostream_ = "NULL" /\ istream_ = "NULL" /\ owner_ = FALSE
    /\ supplied = [sink |-> FALSE, source |-> FALSE]
    /\ wrapper = "none"
    /\ wpc = "none" /\ ppc = "idle" /\ ctl = "none"
    /\ work = 0
    /\ finalRun = FALSE /\ runsAfterJoin = 0

\* ------------------------------------------------------------------- Init
\* tpd::tpd (tpd.hpp:77), tpd::init (tpd.hpp:159-181), allocator::allocator,
\* stream::impl::impl (async_ostream.cpp:72-77), service::impl::add.
InitQueue ==
    /\ inserting_ = NoThread
    /\ consuming_ = NoThread
    /\ inserter_ = 1
    /\ consumer_ = 2
    /\ last_inserted_sequence_number_ = 1
    /\ last_enqueued_sequence_number_ = 1
    /\ last_consumed_sequence_number_ = 1
    /\ consumer_couldnt_switch_ = 0
    /\ inserter_switched_pages_ = 0
    /\ seq_no_generator_ = 1
    /\ sequence_number_ = [pg \in Pages |-> 0]
    /\ chain = [pg \in Pages |-> << >>]
    /\ pc = [t \in Threads |-> "idle"]
    /\ buffer_ = [t \in Threads |-> 0]
    /\ ptr = [t \in Drainers |-> 0]
    /\ cursor = [t \in Drainers |-> 0]
    /\ result = [t \in Drainers |-> FALSE]
    /\ outcome = [t \in Drainers |-> "none"]
    /\ nsub = [p \in Producers |-> 0]
    /\ ncalls = 0
    /\ sync_ = NoThread
    /\ streams_ = TRUE
    /\ destroying = FALSE
    /\ freed = FALSE
    /\ pendingAtDestroy = FALSE
    /\ applied = << >>
    /\ switchLog = [site |-> "none", inserting |-> TRUE, consuming |-> TRUE, asserted |-> TRUE,
                    waited |-> 0]
    /\ frustrated = FALSE
    /\ commitsSince = 0
    /\ raced = FALSE
    /\ generations = 0
    /\ switches = 0

\* no call of run() yet, nothing in the second stream, stop() not called
InitPoll ==
    /\ lcsnAtRun = 0 /\ drainedInRun = {} /\ run_result = "none" /\ flushed = {}
    /\ pending2 = 0
    /\ committedAtStop = {}

\* nothing submitted with async_write_some; a sink in the good state
InitWrite ==
    /\ user_bytes = << >>
    /\ items_ = << >> /\ applying = << >>
    /\ sink_bytes = << >> /\ rdstate = {}
    /\ submitted = << >> /\ writes = << >> /\ handled = << >>

\* no wrapper of an io_service is constructed
InitAsio ==
    /\ stopped_ = 0 /\ queues_empty_ = 0 /\ draining_ = 0
    /\ ioq = << >> /\ s_stopped = FALSE /\ nworkers = 1
    /\ poll_timer_ = "none"
    /\ epc = [e \in ExecThreads |-> "idle"]
    /\ dpc = "none"
    /\ loaded = [p \in Producers |-> 0]
    /\ touchedFreed = FALSE

InitSubmitVars ==
    /\ submitting = [op |-> "none", n |-> 0] /\ worklets = << >> /\ went_through = 0
    /\ used = {} /\ failed = "none"

\* the stream is built on the idle service or on a polling service
Init ==
    /\ InitQueue /\ policy \in {"idle", "polling"}
    /\ InitArena /\ InitLife /\ InitPoll /\ InitWrite /\ InitAsio /\ InitSubmitVars

\* ----------------------------------------------------------- producer side
\* tpd_insert_result of begin_insert (tpd.hpp:47-55, set at 209-210):
\* inserting_into_new_page, read before the page is stamped at line 216
inserting_into_new_page == sequence_number_[inserter_] <= last_enqueued_sequence_number_

\* tpd::begin_insert (tpd.hpp:195-221) as called by stream::insert
\* (async_ostream.cpp:283-285): the blocking lock of line 200 and the body
\* that runs under it.
begin_insert(p) ==
    /\ pc[p] = "idle"
    /\ ~destroying
    /\ nsub[p] < Quota(p)
    /\ inserting_ = NoThread
    /\ inserting_' = p
    /\ seq_no_generator_' = seq_no_generator_ + 1
    /\ buffer_' = [buffer_ EXCEPT ![p] = inserter_]
    /\ LET isn == sequence_number_[inserter_]
           esn == last_enqueued_sequence_number_
       IN /\ chain' = IF isn < esn THEN ClearPage(inserter_) ELSE chain
          /\ raced' = (raced \/ (isn < esn /\ ConsumeOpenOn(inserter_)))
          \* lines 210-211: insert_result(true), inserting into a new page
          /\ generations' = IF inserting_into_new_page THEN generations + 1 ELSE generations
    /\ sequence_number_' = [sequence_number_ EXCEPT ![inserter_] = seq_no_generator_ + 1]
    /\ last_inserted_sequence_number_' = seq_no_generator_ + 1
    /\ pc' = [pc EXCEPT ![p] = "add"]
    /\ UNCHANGED <<extVars, consuming_, last_enqueued_sequence_number_, last_consumed_sequence_number_,
                   inserter_switched_pages_, consumer_couldnt_switch_, inserter_, consumer_,
                   ptr, cursor, result, outcome, nsub, ncalls, svcVars, applied, switchLog,
                   switches, frustrated, commitsSince>>

\* stream::operator<< and the other submit operations (stream.ipp:98-105):
\* allocator::add plus the placement new of the work item into the bound
\* page, then signal_work_available (a no-op for the idle and the polling
\* service, services.hpp:23,58; the steps of work_available_impl for the
\* low-power wrapper).
add(p) ==
    /\ pc[p] = "add"
    /\ chain' = [chain EXCEPT ![buffer_[p]] = Append(@, <<p, nsub[p] + 1>>)]
    /\ raced' = (raced \/ ConsumeOpenOn(buffer_[p]))
    /\ nsub' = [nsub EXCEPT ![p] = @ + 1]
    /\ pc' = [pc EXCEPT ![p] = CASE policy = "low_power" -> "wa_load"
                                  [] policy = "waiting" -> "notify"
                                  [] OTHER -> "commit"]
    /\ UNCHANGED <<extVars, tpdVars, sequence_number_, buffer_, ptr, cursor, result, outcome, ncalls,
                   svcVars, applied, generations, switchLog, switches, frustrated, commitsSince>>

\* the producer never takes over the switch
InserterMustSwitch_never == FALSE

\* insert_transaction::commit, line 228: does the consumer want a switch?
InserterMustSwitch == inserter_switched_pages_ # consumer_couldnt_switch_

insert_commit_check(p) ==
    /\ pc[p] = "commit"
    /\ pc' = [pc EXCEPT ![p] = IF InserterMustSwitch THEN "c_try" ELSE "c_unlock"]
    /\ UNCHANGED <<extVars, tpdVars, pageVars, buffer_, ptr, cursor, result, outcome, nsub, ncalls, svcVars, histVars>>

\* insert_transaction::commit with a blocking scoped_lock on consuming_ in
\* place of the scoped_try_lock of line 230
insert_commit_lock_blocking(p) ==
    /\ pc[p] = "c_try"
    /\ consuming_ = NoThread
    /\ consuming_' = p
    /\ pc' = [pc EXCEPT ![p] = "c_switch"]
    /\ UNCHANGED <<extVars, inserting_, last_inserted_sequence_number_, last_enqueued_sequence_number_,
                   last_consumed_sequence_number_, seq_no_generator_, inserter_switched_pages_,
                   consumer_couldnt_switch_, inserter_, consumer_,
                   pageVars, buffer_, ptr, cursor, result, outcome, nsub, ncalls, svcVars, histVars>>

\* insert_transaction::commit, line 230: scoped_try_lock on consuming_
insert_commit_try_lock(p) ==
    /\ pc[p] = "c_try"
    /\ IF consuming_ = NoThread
       THEN /\ consuming_' = p
            /\ pc' = [pc EXCEPT ![p] = "c_switch"]
       ELSE /\ consuming_' = consuming_
            /\ pc' = [pc EXCEPT ![p] = "c_unlock"]
    /\ UNCHANGED <<extVars, inserting_, last_inserted_sequence_number_, last_enqueued_sequence_number_,
                   last_consumed_sequence_number_, seq_no_generator_, inserter_switched_pages_,
                   consumer_couldnt_switch_, inserter_, consumer_,
                   pageVars, buffer_, ptr, cursor, result, outcome, nsub, ncalls, svcVars, histVars>>

\* insert_transaction::commit, lines 231-232
insert_commit_switch(p) ==
    /\ pc[p] = "c_switch"
    /\ IF ~Consumable
       THEN /\ switch_pages(p, "insert_commit")
            /\ pc' = [pc EXCEPT ![p] = "c_caught_up"]
       ELSE /\ pc' = [pc EXCEPT ![p] = "c_release"]
            /\ UNCHANGED <<inserter_, consumer_, last_enqueued_sequence_number_, switchLog, switches,
                           frustrated, commitsSince>>
    /\ UNCHANGED <<extVars, inserting_, consuming_, last_inserted_sequence_number_,
                   last_consumed_sequence_number_, seq_no_generator_, inserter_switched_pages_,
                   consumer_couldnt_switch_,
                   pageVars, buffer_, ptr, cursor, result, outcome, nsub, ncalls, svcVars, applied, generations, raced>>

\* insert_transaction::commit, line 233 ("caught up")
insert_commit_caught_up(p) ==
    /\ pc[p] = "c_caught_up"
    /\ inserter_switched_pages_' = consumer_couldnt_switch_
    /\ pc' = [pc EXCEPT ![p] = "c_release"]
    /\ UNCHANGED <<extVars, inserting_, consuming_, last_inserted_sequence_number_,
                   last_enqueued_sequence_number_, last_consumed_sequence_number_,
                   seq_no_generator_, consumer_couldnt_switch_, inserter_, consumer_,
                   pageVars, buffer_, ptr, cursor, result, outcome, nsub, ncalls, svcVars, histVars>>

\* insert_transaction::commit, line 235: ~scoped_try_lock releases consuming_
insert_commit_release(p) ==
    /\ pc[p] = "c_release"
    /\ consuming_' = NoThread
    /\ pc' = [pc EXCEPT ![p] = "c_unlock"]
    /\ UNCHANGED <<extVars, inserting_, last_inserted_sequence_number_, last_enqueued_sequence_number_,
                   last_consumed_sequence_number_, seq_no_generator_, inserter_switched_pages_,
                   consumer_couldnt_switch_, inserter_, consumer_,
                   pageVars, buffer_, ptr, cursor, result, outcome, nsub, ncalls, svcVars, histVars>>

\* insert_transaction::commit, lines 236-239: unlock inserting_, unbind
insert_commit_unlock(p) ==
    /\ pc[p] = "c_unlock"
    /\ inserting_' = NoThread
    /\ buffer_' = [buffer_ EXCEPT ![p] = 0]
    /\ pc' = [pc EXCEPT ![p] = "idle"]
    /\ commitsSince' = IF frustrated THEN commitsSince + 1 ELSE commitsSince
    /\ UNCHANGED <<extVars, consuming_, last_inserted_sequence_number_, last_enqueued_sequence_number_,
                   last_consumed_sequence_number_, seq_no_generator_, inserter_switched_pages_,
                   consumer_couldnt_switch_, inserter_, consumer_,
                   pageVars, ptr, cursor, result, outcome, nsub, ncalls, svcVars, applied, generations, switchLog, switches,
                   frustrated, raced>>

\* warmup_before_inserting without line 191: the page is cleared, its
\* sequence tag is left alone
warmup_lock_untagged(p) ==
    /\ pc[p] = "idle"
    /\ ~destroying
    /\ inserting_ = NoThread
    /\ inserting_' = p
    /\ LET isn == sequence_number_[inserter_]
           esn == last_enqueued_sequence_number_
       IN IF isn < esn
          THEN /\ chain' = ClearPage(inserter_)
               /\ raced' = (raced \/ ConsumeOpenOn(inserter_))
          ELSE UNCHANGED <<chain, raced>>
    /\ pc' = [pc EXCEPT ![p] = "w_unlock"]
    /\ UNCHANGED <<extVars, consuming_, last_inserted_sequence_number_, last_enqueued_sequence_number_,
                   last_consumed_sequence_number_, seq_no_generator_, inserter_switched_pages_,
                   consumer_couldnt_switch_, inserter_, consumer_, sequence_number_,
                   buffer_, ptr, cursor, result, outcome, nsub, ncalls, svcVars, applied, generations, switchLog, switches,
                   frustrated, commitsSince>>

\* tpd::warmup_before_inserting (tpd.hpp:183-193): lock and body
warmup_lock(p) ==
    /\ pc[p] = "idle"
    /\ ~destroying
    /\ inserting_ = NoThread
    /\ inserting_' = p
    /\ LET isn == sequence_number_[inserter_]
           esn == last_enqueued_sequence_number_
       IN IF isn < esn
          THEN /\ chain' = ClearPage(inserter_)
               /\ sequence_number_' = [sequence_number_ EXCEPT ![inserter_] = esn]
               /\ raced' = (raced \/ ConsumeOpenOn(inserter_))
          ELSE UNCHANGED <<chain, sequence_number_, raced>>
    /\ pc' = [pc EXCEPT ![p] = "w_unlock"]
    /\ UNCHANGED <<extVars, consuming_, last_inserted_sequence_number_, last_enqueued_sequence_number_,
                   last_consumed_sequence_number_, seq_no_generator_, inserter_switched_pages_,
                   consumer_couldnt_switch_, inserter_, consumer_,
                   buffer_, ptr, cursor, result, outcome, nsub, ncalls, svcVars, applied, generations, switchLog, switches,
                   frustrated, commitsSince>>

\* tpd::warmup_before_inserting, line 193: the scoped_lock is released
warmup_unlock(p) ==
    /\ pc[p] = "w_unlock"
    /\ inserting_' = NoThread
    /\ pc' = [pc EXCEPT ![p] = "idle"]
    /\ UNCHANGED <<extVars, consuming_, last_inserted_sequence_number_, last_enqueued_sequence_number_,
                   last_consumed_sequence_number_, seq_no_generator_, inserter_switched_pages_,
                   consumer_couldnt_switch_, inserter_, consumer_,
                   pageVars, buffer_, ptr, cursor, result, outcome, nsub, ncalls, svcVars, histVars>>

\* ------------------------------------------------------------ consumer side
\* stream::impl::try_drain, lines 266-269: a fresh consume_transaction and
\* the call of try_consume
try_drain_loop(t) ==
    /\ pc[t] = "try_drain"
    /\ pc' = [pc EXCEPT ![t] = "tc_check"]
    /\ outcome' = [outcome EXCEPT ![t] = "pending"]
    /\ UNCHANGED <<extVars, tpdVars, pageVars, buffer_, ptr, cursor, result, nsub, ncalls, svcVars, histVars>>

\* tpd::try_consume, line 250: is it consumable?  (no lock is held)
try_consume_check(t) ==
    /\ pc[t] = "tc_check"
    /\ pc' = [pc EXCEPT ![t] =
                IF Consumable
                THEN "tc_lock" ELSE "tc_try_inserting"]
    /\ UNCHANGED <<extVars, tpdVars, pageVars, buffer_, ptr, cursor, result, outcome, nsub, ncalls, svcVars, histVars>>

\* tpd::try_consume, lines 252-253: scoped_try_lock on inserting_
try_consume_try_inserting(t) ==
    /\ pc[t] = "tc_try_inserting"
    /\ IF inserting_ = NoThread
       THEN /\ inserting_' = t
            /\ pc' = [pc EXCEPT ![t] = "tc_switch"]
       ELSE /\ consumer_couldnt_switch_ < MaxCouldntSwitch
            /\ inserting_' = inserting_
            /\ pc' = [pc EXCEPT ![t] = "tc_couldnt"]
    /\ UNCHANGED <<extVars, consuming_, last_inserted_sequence_number_, last_enqueued_sequence_number_,
                   last_consumed_sequence_number_, seq_no_generator_, inserter_switched_pages_,
                   consumer_couldnt_switch_, inserter_, consumer_,
                   pageVars, buffer_, ptr, cursor, result, outcome, nsub, ncalls, svcVars, histVars>>

\* tpd::try_consume, lines 255-256: ++consumer_couldnt_switch_, return
\* cr_queue_not_empty.  frustrated remembers that the complaint was made
\* while the consumer had caught up.
try_consume_couldnt_switch(t) ==
    /\ pc[t] = "tc_couldnt"
    /\ consumer_couldnt_switch_' = consumer_couldnt_switch_ + 1
    /\ LET caught_up == ~Consumable
       IN /\ frustrated' = (frustrated \/ caught_up)
          /\ commitsSince' = IF ~frustrated /\ caught_up THEN 0 ELSE commitsSince
    /\ pc' = [pc EXCEPT ![t] = "td_break"]
    /\ outcome' = [outcome EXCEPT ![t] = "queue_not_empty"]
    /\ UNCHANGED <<extVars, inserting_, consuming_, last_inserted_sequence_number_,
                   last_enqueued_sequence_number_, last_consumed_sequence_number_,
                   seq_no_generator_, inserter_switched_pages_, inserter_, consumer_,
                   pageVars, buffer_, ptr, cursor, result, nsub, ncalls, svcVars, applied, generations,
                   switchLog, switches, raced>>

\* tpd::try_consume, lines 257-263, inserting_ held by the try-lock
try_consume_switch(t) ==
    /\ pc[t] = "tc_switch"
    /\ IF SomethingToEnqueue
       THEN /\ switch_pages(t, "try_consume")
            /\ inserting_' = inserting_
            /\ pc' = [pc EXCEPT ![t] = "tc_recheck"]
       ELSE /\ inserting_' = NoThread
            /\ pc' = [pc EXCEPT ![t] = "td_break"]
            /\ UNCHANGED <<inserter_, consumer_, last_enqueued_sequence_number_, switchLog, switches,
                           frustrated, commitsSince>>
    /\ outcome' = [outcome EXCEPT ![t] = IF SomethingToEnqueue THEN @ ELSE "no_more_work"]
    /\ UNCHANGED <<extVars, consuming_, last_inserted_sequence_number_, last_consumed_sequence_number_,
                   seq_no_generator_, inserter_switched_pages_, consumer_couldnt_switch_,
                   pageVars, buffer_, ptr, cursor, result, nsub, ncalls, svcVars, applied, generations, raced>>

\* tpd::try_consume, lines 266-268: "is it consumable now?", then the
\* scoped_try_lock on inserting_ goes out of scope
try_consume_recheck(t) ==
    /\ pc[t] = "tc_recheck"
    /\ inserting_' = NoThread
    /\ pc' = [pc EXCEPT ![t] =
                IF Consumable
                THEN "tc_lock" ELSE "td_break"]
    /\ outcome' = [outcome EXCEPT ![t] = IF Consumable THEN @ ELSE "no_more_work"]
    /\ UNCHANGED <<extVars, consuming_, last_inserted_sequence_number_, last_enqueued_sequence_number_,
                   last_consumed_sequence_number_, seq_no_generator_, inserter_switched_pages_,
                   consumer_couldnt_switch_, inserter_, consumer_,
                   pageVars, buffer_, ptr, cursor, result, nsub, ncalls, svcVars, histVars>>

\* consuming_.try_lock() fails although nobody holds the lock
ConsumingTryLock_fails == FALSE

\* the result of consuming_.try_lock() ignored
ConsumingTryLock_ignored == TRUE

\* tpd::try_consume, lines 271-272: consuming_.try_lock()
ConsumingTryLock == consuming_ = NoThread

try_consume_lock(t) ==
    /\ pc[t] = "tc_lock"
    /\ IF ConsumingTryLock
       THEN /\ consuming_' = t
            /\ pc' = [pc EXCEPT ![t] = "tc_bind"]
       ELSE /\ consuming_' = consuming_
            /\ pc' = [pc EXCEPT ![t] = "td_break"]
    /\ outcome' = [outcome EXCEPT ![t] = IF ConsumingTryLock THEN @ ELSE "too_many_consumers"]
    /\ UNCHANGED <<extVars, inserting_, last_inserted_sequence_number_, last_enqueued_sequence_number_,
                   last_consumed_sequence_number_, seq_no_generator_, inserter_switched_pages_,
                   consumer_couldnt_switch_, inserter_, consumer_,
                   pageVars, buffer_, ptr, cursor, result, nsub, ncalls, svcVars, histVars>>

\* tpd::try_consume, line 274: transaction.init(consumer_, this)
try_consume_bind(t) ==
    /\ pc[t] = "tc_bind"
    /\ buffer_' = [buffer_ EXCEPT ![t] = consumer_]
    /\ pc' = [pc EXCEPT ![t] = "tc_load"]
    /\ UNCHANGED <<extVars, tpdVars, pageVars, ptr, cursor, result, outcome, nsub, ncalls, svcVars, histVars>>

\* tpd::try_consume, line 275: the volatile load of consumer_ ...
try_consume_load(t) ==
    /\ pc[t] = "tc_load"
    /\ ptr' = [ptr EXCEPT ![t] = consumer_]
    /\ pc' = [pc EXCEPT ![t] = "tc_stamp"]
    /\ UNCHANGED <<extVars, tpdVars, pageVars, buffer_, cursor, result, outcome, nsub, ncalls, svcVars, histVars>>

\* ... and line 275-276: last_consumed_sequence_number_ = its sequence
\* number; return cr_success.  The caller starts allocator::impl::drain.
try_consume_stamp(t) ==
    /\ pc[t] = "tc_stamp"
    /\ last_consumed_sequence_number_' = sequence_number_[ptr[t]]
    /\ cursor' = [cursor EXCEPT ![t] = 1]
    /\ pc' = [pc EXCEPT ![t] = "drain"]
    /\ outcome' = [outcome EXCEPT ![t] = "success"]
    /\ UNCHANGED <<extVars, inserting_, consuming_, last_inserted_sequence_number_,
                   last_enqueued_sequence_number_, seq_no_generator_, inserter_switched_pages_,
                   consumer_couldnt_switch_, inserter_, consumer_,
                   pageVars, buffer_, ptr, result, nsub, ncalls, svcVars, histVars>>

\* allocator::impl::drain (async_ostream.cpp:236-262), one iteration of the
\* walk: the work item under the cursor is applied to the sink
drain_apply(t) ==
    /\ pc[t] = "drain"
    /\ cursor[t] <= Len(chain[buffer_[t]])
    /\ applied' = Append(applied, chain[buffer_[t]][cursor[t]])
    /\ cursor' = [cursor EXCEPT ![t] = @ + 1]
    /\ UNCHANGED <<extVars, tpdVars, pageVars, pc, buffer_, ptr, result, outcome, nsub, ncalls, svcVars,
                   switchLog, switches, frustrated, commitsSince, raced, generations>>

\* allocator::impl::drain reads the terminating 0 link;
\* stream::impl::try_drain, line 273: result = true
drain_end(t) ==
    /\ pc[t] = "drain"
    /\ cursor[t] > Len(chain[buffer_[t]])
    /\ result' = [result EXCEPT ![t] = TRUE]
    /\ pc' = [pc EXCEPT ![t] = "cc_try"]
    /\ UNCHANGED <<extVars, tpdVars, pageVars, buffer_, ptr, cursor, outcome, nsub, ncalls, svcVars, histVars>>

\* consume_transaction::commit with a blocking scoped_lock on inserting_ in
\* place of the scoped_try_lock of line 285
consume_commit_lock_blocking(t) ==
    /\ pc[t] = "cc_try"
    /\ inserting_ = NoThread
    /\ inserting_' = t
    /\ pc' = [pc EXCEPT ![t] = "cc_switch"]
    /\ UNCHANGED <<extVars, consuming_, last_inserted_sequence_number_, last_enqueued_sequence_number_,
                   last_consumed_sequence_number_, seq_no_generator_, inserter_switched_pages_,
                   consumer_couldnt_switch_, inserter_, consumer_,
                   pageVars, buffer_, ptr, cursor, result, outcome, nsub, ncalls, svcVars, histVars>>

\* consume_transaction::commit, line 285: scoped_try_lock on inserting_
consume_commit_try_lock(t) ==
    /\ pc[t] = "cc_try"
    /\ IF inserting_ = NoThread
       THEN /\ inserting_' = t
            /\ pc' = [pc EXCEPT ![t] = "cc_switch"]
       ELSE /\ inserting_' = inserting_
            /\ pc' = [pc EXCEPT ![t] = "cc_unlock"]
    /\ UNCHANGED <<extVars, consuming_, last_inserted_sequence_number_, last_enqueued_sequence_number_,
                   last_consumed_sequence_number_, seq_no_generator_, inserter_switched_pages_,
                   consumer_couldnt_switch_, inserter_, consumer_,
                   pageVars, buffer_, ptr, cursor, result, outcome, nsub, ncalls, svcVars, histVars>>

\* consume_transaction::commit, lines 286-287
consume_commit_switch(t) ==
    /\ pc[t] = "cc_switch"
    /\ IF SomethingToEnqueue
       THEN switch_pages(t, "consume_commit")
       ELSE UNCHANGED <<inserter_, consumer_, last_enqueued_sequence_number_, switchLog, switches,
                        frustrated, commitsSince>>
    /\ pc' = [pc EXCEPT ![t] = "cc_release"]
    /\ UNCHANGED <<extVars, inserting_, consuming_, last_inserted_sequence_number_,
                   last_consumed_sequence_number_, seq_no_generator_, inserter_switched_pages_,
                   consumer_couldnt_switch_,
                   pageVars, buffer_, ptr, cursor, result, outcome, nsub, ncalls, svcVars, applied, generations, raced>>

\* consume_transaction::commit, line 288: the try-lock on inserting_ ends
consume_commit_release(t) ==
    /\ pc[t] = "cc_release"
    /\ inserting_' = NoThread
    /\ pc' = [pc EXCEPT ![t] = "cc_unlock"]
    /\ UNCHANGED <<extVars, consuming_, last_inserted_sequence_number_, last_enqueued_sequence_number_,
                   last_consumed_sequence_number_, seq_no_generator_, inserter_switched_pages_,
                   consumer_couldnt_switch_, inserter_, consumer_,
                   pageVars, buffer_, ptr, cursor, result, outcome, nsub, ncalls, svcVars, histVars>>

\* consume_transaction::commit, lines 289-292: unlock consuming_, unbind;
\* try_drain loops
consume_commit_unlock(t) ==
    /\ pc[t] = "cc_unlock"
    /\ consuming_' = NoThread
    /\ buffer_' = [buffer_ EXCEPT ![t] = 0]
    /\ pc' = [pc EXCEPT ![t] = "try_drain"]
    /\ UNCHANGED <<extVars, inserting_, last_inserted_sequence_number_, last_enqueued_sequence_number_,
                   last_consumed_sequence_number_, seq_no_generator_, inserter_switched_pages_,
                   consumer_couldnt_switch_, inserter_, consumer_,
                   pageVars, ptr, cursor, result, outcome, nsub, ncalls, svcVars, histVars>>

\* ------------------------------------------------- service and life cycle
\* service::impl::run, lines 291-297: takes sync_, drains the registered
\* stream.  The idle service has no thread that calls run (services.hpp:54).
run_begin ==
    /\ pc["svc"] = "idle"
    /\ policy = "polling"
    /\ sync_ = NoThread
    /\ sync_' = "svc"
    /\ result' = [result EXCEPT !["svc"] = FALSE]
    /\ pc' = [pc EXCEPT !["svc"] = IF streams_ THEN "try_drain" ELSE "td_break"]
    /\ UNCHANGED <<extVars, tpdVars, pageVars, buffer_, ptr, cursor, outcome, nsub, ncalls, streams_, policy,
                   destroying, freed, pendingAtDestroy, histVars>>

\* service::impl::run, lines 298-303: try_drain broke out of its loop; flush
\* if anything was drained; the guard releases sync_
run_end ==
    /\ pc["svc"] = "td_break"
    /\ sync_' = NoThread
    /\ pc' = [pc EXCEPT !["svc"] = "idle"]
    /\ UNCHANGED <<extVars, tpdVars, pageVars, buffer_, ptr, cursor, result, outcome, nsub, ncalls, streams_, policy,
                   destroying, freed, pendingAtDestroy, histVars>>

\* stream::~stream, line 331: service::impl::remove under sync_.  The
\* destructor is only called when no thread is inside a member function.
destroy_begin ==
    /\ pc["dtor"] = "idle"
    /\ \A p \in Producers : pc[p] = "idle"
    /\ pc["usr"] = "idle"
    /\ sync_ = NoThread
    /\ streams_' = FALSE
    /\ destroying' = TRUE
    /\ pendingAtDestroy' = ~empty
    /\ pc' = [pc EXCEPT !["dtor"] = "d_loop"]
    /\ UNCHANGED <<extVars, tpdVars, pageVars, buffer_, ptr, cursor, result, outcome, nsub, ncalls, sync_, policy,
                   freed, histVars>>

\* stream::~stream, lines 333-334: while (!empty()) try_drain()
destroy_loop ==
    /\ pc["dtor"] = "d_loop"
    /\ result' = [result EXCEPT !["dtor"] = FALSE]
    /\ pc' = [pc EXCEPT !["dtor"] = IF empty THEN "d_free" ELSE "try_drain"]
    /\ UNCHANGED <<extVars, tpdVars, pageVars, buffer_, ptr, cursor, outcome, nsub, ncalls, svcVars, histVars>>

\* stream::~stream, lines 334-335: try_drain returned; flush if it drained
destroy_flush ==
    /\ pc["dtor"] = "td_break"
    /\ pc' = [pc EXCEPT !["dtor"] = "d_loop"]
    /\ UNCHANGED <<extVars, tpdVars, pageVars, buffer_, ptr, cursor, result, outcome, nsub, ncalls, svcVars, histVars>>

\* stream::~stream, line 338: delete impl_
destroy_free ==
    /\ pc["dtor"] = "d_free"
    /\ freed' = TRUE
    /\ pc' = [pc EXCEPT !["dtor"] = "done"]
    /\ UNCHANGED <<extVars, tpdVars, pageVars, buffer_, ptr, cursor, result, outcome, nsub, ncalls, sync_, streams_,
                   policy, destroying, pendingAtDestroy, histVars>>

\* stream::try_drain (async_ostream.cpp:107-109) called by a user thread
\* while the service may be draining too
user_try_drain ==
    /\ pc["usr"] = "idle"
    /\ ~destroying
    /\ result' = [result EXCEPT !["usr"] = FALSE]
    /\ pc' = [pc EXCEPT !["usr"] = "try_drain"]
    /\ ncalls < MaxUserDrains
    /\ ncalls' = ncalls + 1
    /\ UNCHANGED <<extVars, tpdVars, pageVars, buffer_, ptr, cursor, outcome, nsub, svcVars, histVars>>

user_return ==
    /\ pc["usr"] = "td_break"
    /\ pc' = [pc EXCEPT !["usr"] = "idle"]
    /\ UNCHANGED <<extVars, tpdVars, pageVars, buffer_, ptr, cursor, result, outcome, nsub, ncalls, svcVars, histVars>>

\* ---------------------------------------------------------- specifications
SubmitSteps(p) ==
    \/ begin_insert(p) \/ add(p)
    \/ insert_commit_check(p) \/ insert_commit_try_lock(p) \/ insert_commit_switch(p)
    \/ insert_commit_caught_up(p) \/ insert_commit_release(p) \/ insert_commit_unlock(p)

ProducerSteps(p) == SubmitSteps(p) \/ warmup_lock(p) \/ warmup_unlock(p)

Produce == \E p \in Producers : ProducerSteps(p)

ConsumeSteps(t) ==
    \/ try_drain_loop(t) \/ try_consume_check(t) \/ try_consume_try_inserting(t)
    \/ try_consume_couldnt_switch(t) \/ try_consume_switch(t) \/ try_consume_recheck(t)
    \/ try_consume_lock(t) \/ try_consume_bind(t) \/ try_consume_load(t)
    \/ try_consume_stamp(t) \/ drain_apply(t) \/ drain_end(t)
    \/ consume_commit_try_lock(t) \/ consume_commit_switch(t)
    \/ consume_commit_release(t) \/ consume_commit_unlock(t)

Consume == \E t \in Drainers : ConsumeSteps(t)

Service == run_begin \/ run_end

Destroy == destroy_begin \/ destroy_loop \/ destroy_flush \/ destroy_free

User == user_try_drain \/ user_return

\* Any number of producers, one drainer at a time: the service thread under
\* sync_, then the destructor.
Next == Produce \/ Consume \/ Service \/ Destroy

Spec == Init /\ [][Next]_vars

\* Several threads call try_consume at once: a user thread calls
\* stream::try_drain while the service drains.  One producer thread submits.
NextMC == SubmitSteps("p1") \/ Consume \/ Service \/ User

SpecMC == Init /\ [][NextMC]_vars

\* A caller of tpd that commits its consume_transaction by an explicit call
\* of commit() and lets the destructor commit it again (tpd.hpp:96-103).
\* consume_transaction::commit, line 283: if (parent_).  init and commit set
\* buffer_ and parent_ together, buffer_ stands for both.
commit_bound_always(t) == TRUE

commit_bound(t) == buffer_[t] # 0

\* consume_transaction::commit called explicitly, lines 289-292: unlock
\* consuming_, unbind; the transaction object lives on
consume_commit_explicit(t) ==
    /\ pc[t] = "cc_unlock"
    /\ consuming_' = NoThread
    /\ buffer_' = [buffer_ EXCEPT ![t] = 0]
    /\ pc' = [pc EXCEPT ![t] = "cc_again"]
    /\ UNCHANGED <<extVars, inserting_, last_inserted_sequence_number_, last_enqueued_sequence_number_,
                   last_consumed_sequence_number_, seq_no_generator_, inserter_switched_pages_,
                   consumer_couldnt_switch_, inserter_, consumer_,
                   pageVars, ptr, cursor, result, outcome, nsub, ncalls, svcVars, histVars>>

\* ~consume_transaction, line 101: commit() once more.  Line 283 decides
\* whether the body of commit runs again; lines 291-292 run in any case.
consume_transaction_dtor(t) ==
    /\ pc[t] = "cc_again"
    /\ buffer_' = [buffer_ EXCEPT ![t] = IF commit_bound(t) THEN @ ELSE 0]
    /\ pc' = [pc EXCEPT ![t] = IF commit_bound(t) THEN "cc_try" ELSE "try_drain"]
    /\ UNCHANGED <<extVars, tpdVars, pageVars, ptr, cursor, result, outcome, nsub, ncalls, svcVars, histVars>>

TransactionSteps(t) ==
    \/ try_drain_loop(t) \/ try_consume_check(t) \/ try_consume_try_inserting(t)
    \/ try_consume_couldnt_switch(t) \/ try_consume_switch(t) \/ try_consume_recheck(t)
    \/ try_consume_lock(t) \/ try_consume_bind(t) \/ try_consume_load(t)
    \/ try_consume_stamp(t) \/ drain_apply(t) \/ drain_end(t)
    \/ consume_commit_try_lock(t) \/ consume_commit_switch(t)
    \/ consume_commit_release(t) \/ consume_commit_explicit(t)
    \/ consume_transaction_dtor(t)

\* The service drains through try_drain, whose transaction is committed by
\* its destructor alone; the user thread commits explicitly as well.
NextCommit ==
    \/ SubmitSteps("p1")
    \/ ConsumeSteps("svc") \/ Service
    \/ TransactionSteps("usr") \/ User

SpecCommit == Init /\ [][NextCommit]_vars

\* A work item whose apply submits to the stream that is being drained: the
\* submit runs on the service thread, inside allocator::impl::drain
\* (async_ostream.cpp:246).  Its insert_transaction and its position are kept
\* under the name Handler; it takes steps only while the service thread is
\* in the walk of drain after an apply, and the service thread takes none
\* until the submit has returned.  A lock held under the name Handler is
\* held by the service thread.
Handler == "p2"
InHandler == pc["svc"] = "drain" /\ cursor["svc"] >= 2
\* the apply of the first work item drained makes the submit
HandlerSubmits == InHandler /\ nsub[Handler] < Quota(Handler)
\* the service thread is not inside a submit, nor about to make one
ServiceThreadFree == pc[Handler] = "idle" /\ ~HandlerSubmits

NextReentrant ==
    \/ SubmitSteps("p1")
    \/ InHandler /\ SubmitSteps(Handler)
    \/ ServiceThreadFree /\ (ConsumeSteps("svc") \/ Service)

InitReentrant == Init /\ policy = "polling"

SpecReentrant == InitReentrant /\ [][NextReentrant]_vars

\* every thread that can take a step takes one in the end: the locks are
\* spinlocks, a thread that finds one taken tries again
SpecReentrantFair ==
    /\ SpecReentrant
    /\ WF_vars(SubmitSteps("p1"))
    /\ WF_vars(InHandler /\ SubmitSteps(Handler))
    /\ WF_vars(ServiceThreadFree /\ (ConsumeSteps("svc") \/ Service))

\* ------------------------------------------------------- allocator::impl
\* line 187 left out: the word before the page break is not linked
page_break_link_missing(m, prev, begin) == m

\* allocate, line 187: (*prev_cursor_) = the beginning of the new page
page_break_link(m, prev, begin) == Store(m, prev, Link(begin))

\* the tail page alone decides the size of the new page
NewPageSize_twice_tail(tailBytes, size) == 2 * tailBytes

\* allocate, lines 179-181: newSize, from the bytes between storage_begin_
\* and storage_end_ of the last page and the size that line 167 decremented
NewPageSize(tailBytes, size) == Max(2 * tailBytes, 2 * size)

\* allocator::impl::allocate (async_ostream.cpp:165-198) for a request of
\* size0 bytes; prev is prev_cursor_ as the caller left it.  The result is
\* the fields and the memory after the call; inside tells whether every
\* word written lies in the storage of its page.
allocate(size0, prev) ==
    LET size == size0 - 1
        next == <<cursor_[1], cursor_[2] + Advance(size)>>
    IN IF next[2] < end_of_page_[2]
       THEN \* stay on this page
            [cursor |-> next, prev_cursor |-> prev, end |-> end_of_page_,
             last |-> last_, heap |-> heap, npages |-> npages,
             last_allocated |-> cursor_,
             mem |-> Store(Store(mem, prev, Link(next)), next, Zero),
             inside |-> InStorage(heap, prev) /\ InStorage(heap, next)]
       ELSE \* another page, twice the previous or the entry
            LET newSize == NewPageSize(StorageBytes(heap[last_].size), size)
                np == npages + 1
                begin == <<np, 0>>
                h == [x \in DOMAIN heap \cup {np} |->
                        IF x = np THEN [size |-> newSize, next_ |-> 0]
                        ELSE IF x = last_ THEN [heap[x] EXCEPT !.next_ = np]
                        ELSE heap[x]]
                inAdd == prev = cursor_
                brk == <<cursor_[1], cursor_[2] + 1>>
                m1 == Store(mem, begin, Zero)
                m2 == IF inAdd
                      THEN page_break_link(Fill(m1, brk, page_break_size_in_std_size_ts, PageBreak),
                                           prev, begin)
                      ELSE m1
                prev2 == IF inAdd THEN begin ELSE prev
                cur2 == <<np, Advance(size)>>
            IN [cursor |-> cur2, prev_cursor |-> prev2,
                end |-> <<np, EndOffset(newSize)>>,
                last |-> np, heap |-> h, npages |-> np,
                last_allocated |-> begin,
                mem |-> Store(Store(m2, prev2, Link(cur2)), cur2, Zero),
                inside |-> /\ InStorage(h, prev2) /\ InStorage(h, cur2)
                           /\ (inAdd => InStorage(h, brk))]

\* the fields take the values allocate left
Allocated(r) ==
    /\ cursor_' = r.cursor
    /\ prev_cursor_' = r.prev_cursor
    /\ end_of_page_' = r.end
    /\ last_' = r.last
    /\ heap' = r.heap
    /\ npages' = r.npages
    /\ last_allocated_' = r.last_allocated

\* allocator::impl::impl (131-134): the first page, then clear() on it
allocator_ctor(ep) ==
    /\ apc = "none"
    /\ ep_' = ep
    /\ heap' = [x \in {1} |-> [size |-> FirstPageBytes, next_ |-> 0]]
    /\ npages' = 1
    /\ first_' = 1 /\ last_' = 1
    /\ prev_cursor_' = NULL
    /\ cursor_' = <<1, 0>>
    /\ end_of_page_' = <<1, EndOffset(FirstPageBytes)>>
    /\ mem' = [x \in {<<1, 0>>} |-> Zero]
    /\ last_allocated_' = NULL
    /\ apc' = "idle"
    /\ lastOp' = "ctor"
    /\ UNCHANGED <<queueVars, lifeVars, pollVars, moreVars, walk, nadds, ndrains, nclears, added, kindOf, visited, breaks,
                   reports, escaped, destroyed, wild, firstBefore, lastBefore, heapBefore, requested>>

\* allocator::impl::add (199-203) and the placement new of the work item at
\* the address it returns (stream.ipp:98-105); the constructor of the item
\* has started
allocator_add(size, kind) ==
    /\ apc = "idle"
    /\ nadds < MaxAdds
    /\ LET r == allocate(size + WordBytes, cursor_)
           item == <<r.last_allocated[1], r.last_allocated[2] + 1>>
       IN /\ Allocated(r)
          /\ mem' = Fill(r.mem, item, WordsOf(size), Obj(nadds + 1))
          /\ wild' = (wild \/ ~r.inside \/ ~InStorage(r.heap, <<item[1], item[2] + WordsOf(size) - 1>>))
    /\ nadds' = nadds + 1
    /\ added' = Append(added, nadds + 1)
    /\ kindOf' = Append(kindOf, kind)
    /\ apc' = "constructing"
    /\ lastOp' = "add"
    /\ requested' = size + WordBytes
    /\ UNCHANGED <<queueVars, lifeVars, pollVars, moreVars, first_, ep_, walk, ndrains, nclears, visited, breaks, reports,
                   escaped, destroyed, firstBefore, lastBefore, heapBefore>>

\* allocator::allocate (231) called by the constructor of the work item for
\* its payload, which the constructor then copies there
allocator_allocate(size) ==
    /\ apc = "constructing"
    /\ LET r == allocate(size, prev_cursor_)
       IN /\ Allocated(r)
          /\ mem' = Fill(r.mem, r.last_allocated, WordsOf(size), Data)
          /\ wild' = (wild \/ ~r.inside
                           \/ ~InStorage(r.heap, <<r.last_allocated[1],
                                                   r.last_allocated[2] + WordsOf(size) - 1>>))
    /\ apc' = "idle"
    /\ lastOp' = "allocate"
    /\ requested' = size
    /\ UNCHANGED <<queueVars, lifeVars, pollVars, moreVars, first_, ep_, walk, nadds, ndrains, nclears, added, kindOf,
                   visited, breaks, reports, escaped, destroyed, firstBefore, lastBefore,
                   heapBefore>>

\* the constructor of the work item returns without a payload
constructed ==
    /\ apc = "constructing"
    /\ apc' = "idle"
    /\ UNCHANGED <<queueVars, lifeVars, pollVars, moreVars, implVars, walk, nadds, ndrains, nclears, seenVars>>

\* allocator::impl::drain, lines 237-238
drain_begin ==
    /\ apc = "idle"
    /\ ndrains < MaxDrains
    /\ ndrains' = ndrains + 1
    /\ walk' = <<first_, 0>>
    /\ visited' = << >> /\ breaks' = 0 /\ reports' = << >>
    /\ apc' = "drain"
    /\ lastOp' = "drain"
    /\ UNCHANGED <<queueVars, lifeVars, pollVars, moreVars, implVars, nadds, nclears, added, kindOf, escaped, destroyed,
                   wild, firstBefore, lastBefore, heapBefore, requested>>

\* the handlers of lines 248-257 in the order they are tried: the callback
\* of error_policy that is called for what apply threw, and whether the
\* exception leaves the try statement
catch_only_named(kind) ==
    [callback |-> IF kind = "boost" THEN "catch_boost_exception"
                  ELSE IF kind = "std" THEN "catch_std_exception"
                  ELSE "none",
     escapes |-> kind = "unknown"]

Catch(kind) ==
    [callback |-> IF kind = "boost" THEN "catch_boost_exception"
                  ELSE IF kind = "std" THEN "catch_std_exception"
                  ELSE "catch_unknown_exception",
     escapes |-> FALSE]

\* is the word one that line 239 or 258 can follow?
IsLink(m, a) == a \in DOMAIN m /\ m[a][1] = "link"
IsZero(m, a) == a \in DOMAIN m /\ m[a] = Zero
Target(m, a) == <<m[a][2], m[a][3]>>
Worklet(a) == <<a[1], a[2] + 1>>

\* allocator::impl::drain, one iteration of the loop of lines 239-260, or its
\* end.  A read of freed or never written memory is recorded in wild.
drain_step ==
    /\ apc = "drain"
    /\ IF IsZero(mem, walk)
       THEN /\ apc' = "idle"
            /\ UNCHANGED <<walk, visited, breaks, reports, escaped, wild>>
       ELSE IF ~IsLink(mem, walk) \/ Worklet(walk) \notin DOMAIN mem
       THEN /\ apc' = "idle"
            /\ wild' = TRUE
            /\ UNCHANGED <<walk, visited, breaks, reports, escaped>>
       ELSE LET w == mem[Worklet(walk)]
            IN IF w = PageBreak
               THEN /\ breaks' = breaks + 1
                    /\ walk' = Target(mem, walk)
                    /\ UNCHANGED <<apc, visited, reports, escaped, wild>>
               ELSE IF w[1] = "obj"
               THEN LET k == w[2]
                        c == Catch(kindOf[k])
                        thrown == kindOf[k] # "ok"
                    IN /\ visited' = Append(visited, k)
                       /\ reports' = IF thrown /\ ~c.escapes /\ ep_ # "NULL"
                                     THEN Append(reports, <<c.callback, k>>)
                                     ELSE reports
                       /\ escaped' = (escaped \/ (thrown /\ c.escapes))
                       /\ IF thrown /\ c.escapes
                          THEN apc' = "idle" /\ walk' = walk
                          ELSE apc' = apc /\ walk' = Target(mem, walk)
                       /\ UNCHANGED <<breaks, wild>>
               ELSE /\ apc' = "idle"
                    /\ wild' = TRUE
                    /\ UNCHANGED <<walk, visited, breaks, reports, escaped>>
    /\ UNCHANGED <<queueVars, lifeVars, pollVars, moreVars, implVars, nadds, ndrains, nclears, added, kindOf, destroyed,
                   lastOp, firstBefore, lastBefore, heapBefore, requested>>

\* the records of the chain that starts at c, in order (drain and
\* clear_contents follow the same links)
MaxRecords == 2 * MaxAdds + 1

RECURSIVE Records(_, _, _)
Records(m, c, fuel) ==
    IF fuel = 0 \/ ~IsLink(m, c) THEN << >>
    ELSE <<c>> \o Records(m, Target(m, c), fuel - 1)

\* the work items in the records of the chain of page f, in order: the ones
\* whose destructor clear_contents (144-152) calls
ChainItems(m, f) ==
    LET recs == Records(m, <<f, 0>>, MaxRecords)
        objs == SelectSeq(recs, LAMBDA c : Worklet(c) \in DOMAIN m /\ m[Worklet(c)][1] = "obj")
    IN [i \in 1..Len(objs) |-> m[Worklet(objs[i])][2]]

\* the pages after the head are the ones deleted
clear_extra_pages_keep_head(h, f, l) == f

\* clear_extra_pages, lines 154-158: the page that is kept when the loop from
\* f ends with first_ = l
RECURSIVE clear_extra_pages(_, _, _)
clear_extra_pages(h, f, l) ==
    IF f = l \/ h[f].next_ = 0 THEN f
    ELSE clear_extra_pages(h, h[f].next_, l)

\* line 162 left out
reset_cursor_skipped(m, c) == m

\* clear_extra_pages, line 162: (*cursor_) = 0
reset_cursor(m, c) == Store(m, c, Zero)

\* allocator::impl::clear (139-163)
allocator_clear ==
    /\ apc = "idle"
    /\ nclears < MaxClears
    /\ nclears' = nclears + 1
    /\ LET kept == clear_extra_pages(heap, first_, last_)
           m1 == Store(mem, <<first_, 0>>, Zero)
           m2 == [x \in {a \in DOMAIN m1 : a[1] = kept} |-> m1[x]]
       IN /\ destroyed' = destroyed \o ChainItems(mem, first_)
          /\ heap' = [x \in {kept} |-> heap[x]]
          /\ first_' = kept
          /\ prev_cursor_' = NULL
          /\ cursor_' = <<kept, 0>>
          /\ end_of_page_' = <<kept, EndOffset(heap[kept].size)>>
          /\ mem' = reset_cursor(m2, <<kept, 0>>)
          /\ wild' = (wild \/ kept # last_)
    /\ last_allocated_' = NULL
    /\ added' = << >>
    /\ firstBefore' = first_ /\ lastBefore' = last_ /\ heapBefore' = DOMAIN heap
    /\ lastOp' = IF lastOp \in {"clear", "clear_again"} THEN "clear_again" ELSE "clear"
    /\ UNCHANGED <<queueVars, lifeVars, pollVars, moreVars, last_, ep_, npages, apc, walk, nadds, ndrains, kindOf, visited,
                   breaks, reports, escaped, requested>>

NextArena ==
    \/ \E ep \in {"NULL", "policy"} : allocator_ctor(ep)
    \/ \E size \in AddSizes, kind \in Kinds : allocator_add(size, kind)
    \/ \E size \in PayloadSizes : allocator_allocate(size)
    \/ constructed
    \/ drain_begin
    \/ drain_step
    \/ allocator_clear

\* the arena alone: the service of the queue plays no part, it is the idle one
InitArenaOnly == Init /\ policy = "idle"

SpecArena == InitArenaOnly /\ [][NextArena]_vars

\* sizeof of the work items and sizes of the payloads around the ends of the
\* first page: 4064 is the largest item that stays on it, 4072 the smallest
\* that does not
SizesAdded == {1, 8, 4064, 4072, 9000}
SizesAllocated == {1, 8, 9, 5000, 20000}

\* the allocator called with these sizes; nothing is drained
NextSizes ==
    \/ allocator_ctor("NULL")
    \/ \E size \in SizesAdded : allocator_add(size, "ok")
    \/ \E size \in SizesAllocated : allocator_allocate(size)
    \/ constructed
    \/ allocator_clear

SpecSizes == InitArenaOnly /\ [][NextSizes]_vars

\* ------------------------------------------ services and stream constructors
ServiceKinds == {"polling", "waiting"}
Targets == {"ostream", "istream", "iostream"}
SchedPolicies == {"low_power", "low_enqueue_latency_by_polling",
                  "low_overall_latency_by_spinning"}

\* the pointers the six constructors of stream pass to stream::impl::impl
\* (async_ostream.cpp:305-327)
SinkOf(target) == IF target \in {"ostream", "iostream"} THEN "target" ELSE "NULL"
SourceOf(target) == IF target \in {"istream", "iostream"} THEN "target" ELSE "NULL"

\* polling_service::polling_service, waiting_service::waiting_service
\* (services.cpp:55-59, 111-115): service_impl() and impl_->start(), which
\* assigns the running thread to service_impl::thread_ (22-24)
service_ctor(k) ==
    /\ ctl = "none"
    /\ service_kind' = k
    /\ stop_requested_' = FALSE
    /\ actually_stopped_' = FALSE
    /\ thread_' = "running"
    /\ wpc' = "loop"
    /\ ctl' = "constructed"
    /\ UNCHANGED <<queueVars, arenaVars, pollVars, moreVars, impl_thread_, streamVars, ppc, work, finalRun,
                   runsAfterJoin>>

\* stream::stream(target, service&) (305-315) with the first constructor of
\* stream::impl (72-77)
stream_ctor_service(target) ==
    /\ ctl = "constructed"
    /\ ostream_' = SinkOf(target)
    /\ istream_' = SourceOf(target)
    /\ owner_' = FALSE
    /\ wrapper' = "none"
    /\ supplied' = [sink |-> SinkOf(target) # "NULL", source |-> SourceOf(target) # "NULL"]
    /\ ctl' = "running"
    /\ UNCHANGED <<queueVars, arenaVars, pollVars, moreVars, implThreadVars, wpc, ppc, work, finalRun,
                   runsAfterJoin>>

\* stream::stream(target, io_service&, sched_policy, error_policy*) (317-327)
\* with the second constructor of stream::impl (78-98)
stream_ctor_io_service(target, p) ==
    /\ ctl = "constructed"
    /\ ostream_' = SinkOf(target)
    /\ istream_' = "NULL"
    /\ owner_' = TRUE
    /\ wrapper' = CASE p = "low_power" -> "asio_service_wrapper_low_power"
                    [] p = "low_enqueue_latency_by_polling" ->
                           "asio_service_wrapper_low_enqueue_latency"
                    [] p = "low_overall_latency_by_spinning" ->
                           "asio_service_wrapper_low_overall_latency"
    /\ supplied' = [sink |-> SinkOf(target) # "NULL", source |-> SourceOf(target) # "NULL"]
    /\ ctl' = "running"
    /\ UNCHANGED <<queueVars, arenaVars, pollVars, moreVars, implThreadVars, wpc, ppc, work, finalRun,
                   runsAfterJoin>>

\* the stream is in the list of the polling or waiting service
Registered == ctl \notin {"none", "constructed"} /\ ~owner_

\* stream::operator<< (stream.ipp:98-105) up to the commit of the transaction
submit ==
    /\ ppc = "idle"
    /\ Registered
    /\ work < MaxWork
    /\ work' = work + 1
    /\ ppc' = "signal"
    /\ UNCHANGED <<queueVars, arenaVars, pollVars, moreVars, implThreadVars, streamVars, wpc, ctl, finalRun,
                   runsAfterJoin>>

\* cond_var_.notify_all(): a thread inside wait is made runnable, a thread
\* that is not inside wait sees nothing of it
notify_all == IF service_kind = "waiting" /\ wpc = "waiting" THEN "loop" ELSE wpc

\* stream::signal_work_available (341-343), service::work_available
\* (stream.hpp:117), waiting_service::work_available_impl (services.cpp:125-127);
\* the polling service suppresses the call
work_available ==
    /\ ppc = "signal"
    /\ wpc' = notify_all
    /\ ppc' = "idle"
    /\ UNCHANGED <<queueVars, arenaVars, pollVars, moreVars, implThreadVars, streamVars, ctl, work, finalRun,
                   runsAfterJoin>>

\* operator(), lines 46 and 102: while (!stop_requested_)
worker_loop ==
    /\ wpc = "loop"
    /\ wpc' = IF stop_requested_ THEN "final" ELSE "run"
    /\ UNCHANGED <<queueVars, arenaVars, pollVars, moreVars, implThreadVars, streamVars, ppc, ctl, work, finalRun,
                   runsAfterJoin>>

\* operator(), lines 47 and 103: parent_.run() drains the registered streams
\* and tells whether it drained anything
worker_run ==
    /\ wpc = "run"
    /\ IF Registered /\ work > 0
       THEN work' = 0 /\ wpc' = "loop"
       ELSE work' = work /\ wpc' = "no_work"
    /\ runsAfterJoin' = IF ctl = "joined" THEN runsAfterJoin + 1 ELSE runsAfterJoin
    /\ UNCHANGED <<queueVars, arenaVars, pollVars, moreVars, implThreadVars, streamVars, ppc, ctl, finalRun>>

\* polling_service::impl::operator(), line 48: sleep(period_) is over
worker_sleep ==
    /\ wpc = "no_work"
    /\ service_kind = "polling"
    /\ wpc' = "loop"
    /\ UNCHANGED <<queueVars, arenaVars, pollVars, moreVars, implThreadVars, streamVars, ppc, ctl, work, finalRun,
                   runsAfterJoin>>

\* waiting_service::impl::operator(), line 104: cond_var_.wait(lock) starts;
\* the lock is on a mutex local to the worker (100-101)
worker_wait ==
    /\ wpc = "no_work"
    /\ service_kind = "waiting"
    /\ wpc' = "waiting"
    /\ UNCHANGED <<queueVars, arenaVars, pollVars, moreVars, implThreadVars, streamVars, ppc, ctl, work, finalRun,
                   runsAfterJoin>>

\* a spurious wake of cond_var_.wait (comment of line 104)
spurious_wake ==
    /\ wpc = "waiting"
    /\ wpc' = "loop"
    /\ UNCHANGED <<queueVars, arenaVars, pollVars, moreVars, implThreadVars, streamVars, ppc, ctl, work, finalRun,
                   runsAfterJoin>>

\* operator(), lines 50 and 106: the run() after the loop
worker_final_run ==
    /\ wpc = "final"
    /\ work' = IF Registered THEN 0 ELSE work
    /\ finalRun' = TRUE
    /\ runsAfterJoin' = IF ctl = "joined" THEN runsAfterJoin + 1 ELSE runsAfterJoin
    /\ wpc' = "finishing"
    /\ UNCHANGED <<queueVars, arenaVars, pollVars, moreVars, implThreadVars, streamVars, ppc, ctl>>

\* operator(), lines 51 and 107: actually_stopped_ = true; the thread ends
worker_exit ==
    /\ wpc = "finishing"
    /\ actually_stopped_' = TRUE
    /\ thread_' = "finished"
    /\ wpc' = "done"
    /\ UNCHANGED <<queueVars, arenaVars, pollVars, moreVars, stop_requested_, impl_thread_, service_kind,
                   streamVars, ppc, ctl, work, finalRun, runsAfterJoin>>

\* the work items whose submit has returned: placed in a page, transaction
\* committed and inserting_ released (stream.ipp:98-105, tpd.hpp:236)
Committed ==
    {x \in Items : /\ x[2] <= nsub[x[1]]
                   /\ (x[2] < nsub[x[1]] \/ pc[x[1]] \in {"idle", "w_unlock"})}

\* polling_service::stop (69-71); waiting_service::stop, line 130
stop ==
    /\ ctl = "running"
    /\ stop_requested_' = TRUE
    /\ ctl' = IF service_kind = "waiting" THEN "stop_notify" ELSE "stopped"
    /\ committedAtStop' = Committed
    /\ UNCHANGED <<queueVars, arenaVars, moreVars, lcsnAtRun, drainedInRun, run_result, flushed, pending2,
                   actually_stopped_, thread_, impl_thread_,
                   service_kind, streamVars, wpc, ppc, work, finalRun, runsAfterJoin>>

\* waiting_service::stop, line 131: notify_all
stop_notify ==
    /\ ctl = "stop_notify"
    /\ wpc' = notify_all
    /\ ctl' = "stopped"
    /\ UNCHANGED <<queueVars, arenaVars, pollVars, moreVars, implThreadVars, streamVars, ppc, work, finalRun,
                   runsAfterJoin>>

\* the thread object that join() joins: polling_service::join (78) names
\* service_impl::thread_; waiting_service::join (139) names impl_->thread_,
\* which in waiting_service::impl is the member declared at line 91
JoinedThread == IF service_kind = "waiting" THEN impl_thread_ ELSE thread_

\* polling_service::join (77-81), waiting_service::join (138-142):
\* boost::thread::join returns when the thread has ended, and at once for a
\* thread object that holds no thread
join ==
    /\ ctl = "stopped"
    /\ JoinedThread # "running"
    /\ ctl' = "joined"
    /\ UNCHANGED <<queueVars, arenaVars, pollVars, moreVars, implThreadVars, streamVars, wpc, ppc, work, finalRun,
                   runsAfterJoin>>

Construct ==
    \/ \E k \in ServiceKinds : service_ctor(k)
    \/ \E target \in Targets : stream_ctor_service(target)
    \/ \E target \in Targets, p \in SchedPolicies : stream_ctor_io_service(target, p)

Worker ==
    \/ worker_loop \/ worker_run \/ worker_sleep \/ worker_wait
    \/ worker_final_run \/ worker_exit

Control == stop \/ stop_notify \/ join

NextLife == Construct \/ submit \/ work_available \/ Worker \/ spurious_wake \/ Control

SpecLife == Init /\ [][NextLife]_vars

\* ------------------------------------------- the polling worker on the queue
\* the polling service is constructed and started (services.cpp:55-59) and
\* one stream is built on it (async_ostream.cpp:305-307); a second stream is
\* registered with the same service
InitPolling ==
    /\ InitQueue /\ policy = "polling"
    /\ InitArena
    /\ InitPoll /\ InitWrite /\ InitAsio /\ InitSubmitVars
    /\ stop_requested_ = FALSE /\ actually_stopped_ = FALSE
    /\ thread_ = "running" /\ impl_thread_ = "not_a_thread"
    /\ service_kind = "polling"
    /\ ostream_ = "target" /\ istream_ = "NULL" /\ owner_ = FALSE
    /\ supplied = [sink |-> TRUE, source |-> FALSE]
    /\ wrapper = "none"
    /\ wpc = "loop" /\ ppc = "idle" /\ ctl = "running"
    /\ work = 0
    /\ finalRun = FALSE /\ runsAfterJoin = 0

\* the streams in service::impl::streams_: 1 is the stream whose queue is
\* modelled step by step, 2 a stream of which only "has a committed page" is kept
Streams == {1, 2}

\* a submit to the second stream has returned
submit2 ==
    /\ pending2 = 0
    /\ pending2' = 1
    /\ UNCHANGED <<queueVars, arenaVars, lifeVars, moreVars, lcsnAtRun, drainedInRun, run_result, flushed,
                   committedAtStop>>

\* service::impl::run, lines 292-295, called from operator() at services.cpp
\* lines 47 and 50: result = false, sync_ is taken, try_drain of the first
\* stream begins
polling_run_begin ==
    /\ wpc \in {"run", "final"}
    /\ pc["svc"] = "idle"
    /\ sync_ = NoThread
    /\ sync_' = "svc"
    /\ result' = [result EXCEPT !["svc"] = FALSE]
    /\ pc' = [pc EXCEPT !["svc"] = "try_drain"]
    /\ lcsnAtRun' = last_consumed_sequence_number_
    /\ wpc' = IF wpc = "run" THEN "in_run" ELSE "in_final"
    /\ UNCHANGED <<tpdVars, pageVars, buffer_, ptr, cursor, outcome, nsub, ncalls, streams_, policy,
                   destroying, freed, pendingAtDestroy, histVars,
                   arenaVars, moreVars, implThreadVars, streamVars, ppc, ctl, work, finalRun, runsAfterJoin,
                   drainedInRun, run_result, flushed, pending2, committedAtStop>>

\* the loop of line 294 assigns and does not accumulate
RunResult_last(r1, r2) == r2

\* service::impl::run, lines 294-297: result is true if any try_drain was
RunResult(r1, r2) == r1 \/ r2

\* service::impl::run, lines 298-301: the flush loop
FlushAll(r) == IF r THEN Streams ELSE {}

\* service::impl::run, lines 294-303, after try_drain of the first stream
\* broke out of its loop: try_drain of the second stream (it drains the
\* committed page, or finds its producer inside a transaction and gives
\* up), the flush loop, the release of sync_ and the return to operator()
\* (services.cpp:47-51)
polling_run_end ==
    /\ wpc \in {"in_run", "in_final"}
    /\ pc["svc"] = "td_break"
    /\ \E r2 \in (IF pending2 = 1 THEN BOOLEAN ELSE {FALSE}) :
          LET r == RunResult(result["svc"], r2) IN
          /\ pending2' = IF r2 THEN 0 ELSE pending2
          /\ drainedInRun' =
                (IF last_consumed_sequence_number_ > lcsnAtRun THEN {1} ELSE {})
                   \cup (IF r2 THEN {2} ELSE {})
          /\ run_result' = IF r THEN "true" ELSE "false"
          /\ flushed' = FlushAll(r)
          /\ wpc' = CASE wpc = "in_final" -> "finishing"
                      [] wpc = "in_run" /\ r -> "loop"
                      [] OTHER -> "no_work"
    /\ finalRun' = (finalRun \/ wpc = "in_final")
    /\ sync_' = NoThread
    /\ pc' = [pc EXCEPT !["svc"] = "idle"]
    /\ UNCHANGED <<tpdVars, pageVars, buffer_, ptr, cursor, result, outcome, nsub, ncalls, streams_,
                   policy, destroying, freed, pendingAtDestroy, histVars,
                   arenaVars, moreVars, implThreadVars, streamVars, ppc, ctl, work, runsAfterJoin,
                   lcsnAtRun, committedAtStop>>

NextPolling ==
    \/ SubmitSteps("p1")
    \/ submit2
    \/ worker_loop
    \/ polling_run_begin
    \/ ConsumeSteps("svc")
    \/ polling_run_end
    \/ worker_sleep
    \/ worker_exit
    \/ stop

SpecPolling == InitPolling /\ [][NextPolling]_vars

\* ------------------------------------------- the waiting worker on the queue
\* the waiting service is constructed and started (services.cpp:110-114) and
\* one stream is built on it; the worker is at the test of its loop
InitWaiting ==
    /\ InitQueue /\ policy = "waiting"
    /\ InitArena
    /\ InitPoll /\ InitWrite /\ InitAsio /\ InitSubmitVars
    /\ stop_requested_ = FALSE /\ actually_stopped_ = FALSE
    /\ thread_ = "not_a_thread" /\ impl_thread_ = "running"
    /\ service_kind = "waiting"
    /\ ostream_ = "target" /\ istream_ = "NULL" /\ owner_ = FALSE
    /\ supplied = [sink |-> TRUE, source |-> FALSE]
    /\ wrapper = "none"
    /\ wpc = "loop" /\ ppc = "idle" /\ ctl = "running"
    /\ work = 0
    /\ finalRun = FALSE /\ runsAfterJoin = 0

\* stream::signal_work_available (async_ostream.cpp:341-343) called at
\* stream.ipp:103, before the insert_transaction commits at the end of
\* operator<<: waiting_service::work_available_impl (services.cpp:125-127)
waiting_work_available(p) ==
    /\ pc[p] = "notify"
    /\ wpc' = notify_all
    /\ pc' = [pc EXCEPT ![p] = "commit"]
    /\ UNCHANGED <<tpdVars, pageVars, buffer_, ptr, cursor, result, outcome, nsub, ncalls, svcVars,
                   histVars, arenaVars, pollVars, moreVars, implThreadVars, streamVars, ppc, ctl,
                   work, finalRun, runsAfterJoin>>

\* the steps of the worker thread: the loop of operator() (services.cpp:
\* 99-106) with service::impl::run on the queue
WaitingWorker ==
    \/ worker_loop \/ polling_run_begin \/ ConsumeSteps("svc") \/ polling_run_end
    \/ worker_wait

\* the steps of a submit that has begun
SubmitGoesOn(p) == pc[p] # "idle" /\ (SubmitSteps(p) \/ waiting_work_available(p))

\* nobody calls stop(), the condition variable does not wake spuriously
NextWaiting ==
    \/ begin_insert("p1")
    \/ SubmitGoesOn("p1")
    \/ WaitingWorker

SpecWaiting == InitWaiting /\ [][NextWaiting]_vars

\* the worker runs when it can, a submit that has begun returns; nothing
\* obliges the caller to submit again
SpecWaitingFair ==
    /\ SpecWaiting
    /\ WF_vars(WaitingWorker)
    /\ WF_vars(SubmitGoesOn("p1"))

\* ------------------------------------------------ the submit operations
\* the public operations of stream that put a work item into the queue
\* (stream.hpp:27-56): operator<< of a value, of a C string or std::string,
\* of a manipulator, operator>>, when_done, async_write_some, put, write,
\* seekp, clear, setstate, imbue
OutputOperations ==
    {"operator<<", "c_string", "manipulator", "async_write_some", "put", "write",
     "seekp", "clear", "imbue"}
Operations == OutputOperations \cup {"operator>>", "when_done", "setstate"}

\* the number of bytes of a raw write, or of the characters of a C string
Lengths == {0, 1, 9}
MaxWorklets == 2

\* the base class of the work item, which the assertions of drain cast to:
\* formatter (stream.hpp:164), unformatted and async_write_some_work
\* (stream.ipp:42, 64), the formatters of async_ostream.cpp:363-417, parser
\* (stream.hpp:170), callback_wrapper (stream.ipp:129)
ClassOf(op) ==
    CASE op \in OutputOperations \cup {"setstate"} -> "formatter_base"
      [] op = "operator>>" -> "parser_base"
      [] op = "when_done" -> "formatter_or_parser"

\* the argument of apply that the body of apply dereferences
\* (stream.hpp:166, 172, 185; stream.ipp:46, 69, 131;
\* async_ostream.cpp:365, 371, 385, 402, 419)
Uses(op) ==
    CASE op \in OutputOperations -> "o"
      [] op \in {"operator>>", "setstate"} -> "i"
      [] op = "when_done" -> "none"

\* sizeof the work item where pointers and size_t have WordBytes bytes: the
\* vtable pointer and the members
ItemSize(op) ==
    CASE op = "write" -> 3 * WordBytes
      [] op = "async_write_some" -> 4 * WordBytes
      [] OTHER -> 2 * WordBytes

\* does the constructor of the work item call allocator::allocate
\* (unformatted_buffer, stream.ipp:32; formatter<const char*>, stream.hpp:182)
HasPayload(op) == op \in {"write", "async_write_some", "c_string"}

\* the size the constructor passes to allocate: the size of the buffer
\* (stream.ipp:32), strlen + 1 (stream.hpp:181-182)
PayloadSize(op, n) == IF op = "c_string" THEN n + 1 ELSE n

\* the operation begins: insert(transaction) (stream.ipp:51, 85, 98)
submit_begin(op, n) ==
    /\ ctl = "running"
    /\ apc = "idle"
    /\ submitting.op = "none"
    /\ failed = "none"
    /\ Len(worklets) < MaxWorklets
    /\ HasPayload(op) \/ n = 0
    /\ submitting' = [op |-> op, n |-> n]
    /\ UNCHANGED <<queueVars, arenaVars, lifeVars, pollVars, writeVars, asioVars,
                   worklets, went_through, used, failed>>

\* add(*transaction.buffer(), sizeof(work item)) (stream.ipp:52, 86, 99)
submit_add ==
    /\ submitting.op # "none"
    /\ nadds = Len(worklets)
    /\ allocator_add(ItemSize(submitting.op), "ok")

\* the constructor of the work item (stream.ipp:54, 91, 100): it allocates
\* and copies its payload, or has none
submit_construct ==
    /\ submitting.op # "none"
    /\ IF HasPayload(submitting.op)
       THEN /\ PayloadSize(submitting.op, submitting.n) # 0
            /\ allocator_allocate(PayloadSize(submitting.op, submitting.n))
       ELSE constructed

\* allocator::impl::allocate, line 166: assert(0 != size) fails
allocate_assert ==
    /\ submitting.op # "none"
    /\ apc = "constructing"
    /\ HasPayload(submitting.op)
    /\ PayloadSize(submitting.op, submitting.n) = 0
    /\ requested' = 0
    /\ lastOp' = "allocate"
    /\ failed' = "0 != size"
    /\ UNCHANGED <<queueVars, implVars, callerVars, added, kindOf, visited, breaks, reports,
                   escaped, destroyed, wild, firstBefore, lastBefore, heapBefore,
                   lifeVars, pollVars, writeVars, asioVars,
                   submitting, worklets, went_through, used>>

\* signal_work_available() and the commit of the transaction at the end of
\* the operation (stream.ipp:56-57, 94-95, 101-102)
submit_end ==
    /\ submitting.op # "none"
    /\ nadds > Len(worklets)
    /\ apc = "idle"
    /\ failed = "none"
    /\ worklets' = Append(worklets, submitting.op)
    /\ submitting' = [op |-> "none", n |-> 0]
    /\ UNCHANGED <<queueVars, arenaVars, lifeVars, pollVars, writeVars, asioVars,
                   went_through, used, failed>>

\* allocator::impl::drain (async_ostream.cpp:239-260) with the pointers of
\* stream::impl::try_drain (270), one work item: the two assertions of lines
\* 243-246, then apply.  An apply that dereferences a null pointer has
\* undefined behaviour: the process ends there or goes on.
drain_worklet ==
    /\ submitting.op = "none"
    /\ failed = "none"
    /\ went_through < Len(worklets)
    /\ LET op == worklets[went_through + 1]
           ref == Uses(op)
           bound == IF ref = "o" THEN ostream_ # "NULL" ELSE istream_ # "NULL"
       IN IF ClassOf(op) = "formatter_base" /\ ostream_ = "NULL"
          THEN /\ failed' = "attempting to write"
               /\ UNCHANGED <<went_through, used>>
          ELSE IF ClassOf(op) = "parser_base" /\ istream_ = "NULL"
          THEN /\ failed' = "attempting to read"
               /\ UNCHANGED <<went_through, used>>
          ELSE /\ went_through' = went_through + 1
               /\ used' = IF ref = "none" THEN used
                          ELSE used \cup {[op |-> op, ref |-> ref, bound |-> bound]}
               /\ IF ref = "none" \/ bound
                  THEN failed' = "none"
                  ELSE failed' \in {"none", "null pointer"}
    /\ UNCHANGED <<queueVars, arenaVars, lifeVars, pollVars, writeVars, asioVars,
                   submitting, worklets>>

NextSubmit ==
    \/ allocator_ctor("NULL")
    \/ Construct
    \/ \E op \in Operations, n \in Lengths : submit_begin(op, n)
    \/ submit_add \/ submit_construct \/ allocate_assert \/ submit_end
    \/ drain_worklet

SpecSubmit == InitArenaOnly /\ [][NextSubmit]_vars

\* ------------------------------------------------------ async_write_some
MaxWrites == 3

\* what the caller has in its buffer: "data", two other bytes, nothing
Payloads == {<<"d", "a", "t", "a">>, <<"x", "y">>, << >>}

\* std::ios_base::iostate as the set of its bits; goodbit is no bit
goodbit == {}

\* boost::system::error_code ec((int)o->rdstate(), generic_category())
\* (stream.ipp:73): the integer value of the iostate, with the bit values of
\* libstdc++ (badbit 1, eofbit 2, failbit 4)
ErrorCode(state) ==
    (IF "badbit" \in state THEN 1 ELSE 0) + (IF "eofbit" \in state THEN 2 ELSE 0)
        + (IF "failbit" \in state THEN 4 ELSE 0)

\* the caller fills or reuses its buffer
set_user_bytes(b) ==
    /\ user_bytes # b
    /\ user_bytes' = b
    /\ UNCHANGED <<queueVars, arenaVars, lifeVars, pollVars, asioVars, submitVars,
                   items_, applying, sink_bytes, rdstate, submitted, writes, handled>>

\* unformatted_buffer::unformatted_buffer (stream.ipp:31-36): allocate and
\* memcpy, the item owns a copy of size bytes
unformatted_buffer(bytes, size) == [copy_ |-> SubSeq(bytes, 1, size), size_ |-> size]

\* stream::async_write_some (stream.ipp:80-95): one async_write_some_work
\* is placed in the queue with a copy of the caller's bytes
async_write_some ==
    /\ Len(submitted) < MaxWrites
    /\ items_' = Append(items_, unformatted_buffer(user_bytes, Len(user_bytes)))
    /\ submitted' = Append(submitted, user_bytes)
    /\ UNCHANGED <<queueVars, arenaVars, lifeVars, pollVars, asioVars, submitVars,
                   user_bytes, applying, sink_bytes, rdstate, writes, handled>>

\* async_write_some_work::apply, line 71: o->write(copy_, size_).  A stream
\* that is not good gets failbit and nothing is written; on a good stream
\* the device takes the bytes or fails, which sets badbit.
apply_write ==
    /\ items_ # << >> /\ applying = << >>
    /\ LET it == Head(items_) IN
       /\ \E device_ok \in BOOLEAN :
             /\ rdstate' = CASE rdstate # goodbit -> rdstate \cup {"failbit"}
                             [] rdstate = goodbit /\ device_ok -> goodbit
                             [] OTHER -> {"badbit"}
             /\ sink_bytes' = IF rdstate = goodbit /\ device_ok
                              THEN sink_bytes \o SubSeq(it.copy_, 1, it.size_)
                              ELSE sink_bytes
             /\ writes' = Append(writes, [bytes |-> SubSeq(it.copy_, 1, it.size_),
                                          before |-> rdstate, after |-> rdstate'])
       /\ applying' = <<it>>
       /\ items_' = Tail(items_)
    /\ UNCHANGED <<queueVars, arenaVars, lifeVars, pollVars, asioVars, submitVars, user_bytes, submitted, handled>>

\* the handler is told the state the sink had before the write
Status_before(before, after) == ErrorCode(before)

\* stream.ipp:73: the state of the sink after the write
Status(before, after) == ErrorCode(after)

\* async_write_some_work::apply, lines 73-75: ec from rdstate, then
\* handler_(ec, buffer_.size_)
apply_handler ==
    /\ applying # << >>
    /\ handled' = Append(handled, <<Status(writes[Len(writes)].before, rdstate),
                                    applying[1].size_>>)
    /\ applying' = << >>
    /\ UNCHANGED <<queueVars, arenaVars, lifeVars, pollVars, asioVars, submitVars,
                   user_bytes, items_, sink_bytes, rdstate, submitted, writes>>

NextWrite ==
    \/ \E b \in Payloads : set_user_bytes(b)
    \/ async_write_some
    \/ apply_write
    \/ apply_handler

SpecWrite == InitArenaOnly /\ [][NextWrite]_vars

\* ------------------------------------------ the wrappers of an io_service
Wrappers == {"asio_service_wrapper_low_power", "asio_service_wrapper_low_enqueue_latency",
             "asio_service_wrapper_low_overall_latency"}

\* stream::stream(std::ostream&, io_service&, sched_policy, error_policy*)
\* (async_ostream.cpp:317-319) has built the stream and wrapper w
InitStreamOn(w) ==
    /\ stop_requested_ = FALSE /\ actually_stopped_ = FALSE
    /\ thread_ = "not_a_thread" /\ impl_thread_ = "not_a_thread"
    /\ service_kind = "none"
    /\ ostream_ = "target" /\ istream_ = "NULL" /\ owner_ = TRUE
    /\ supplied = [sink |-> TRUE, source |-> FALSE]
    /\ wrapper = w
    /\ wpc = "none" /\ ppc = "idle" /\ ctl = "running"
    /\ work = 0
    /\ finalRun = FALSE /\ runsAfterJoin = 0

\* the low-power wrapper with the stream's queue: draining_(0), nothing posted
\* (asio_service_wrappers.cpp:141-144), one thread inside io_service::run
InitLowPower ==
    /\ InitQueue /\ policy = "low_power"
    /\ InitArena /\ InitPoll /\ InitWrite /\ InitAsio /\ InitSubmitVars
    /\ InitStreamOn("asio_service_wrapper_low_power")

\* everything of the queue but the positions of the threads
queueButPc ==
    <<tpdVars, pageVars, buffer_, ptr, cursor, result, outcome, nsub, ncalls, svcVars, histVars>>

\* asio_service_wrapper_low_power::work_available_impl, line 147, called
\* from stream::signal_work_available before the transaction commits
\* (stream.ipp:103-105): the load of draining_ and the test of line 149
work_available_load(p) ==
    /\ pc[p] = "wa_load"
    /\ loaded' = [loaded EXCEPT ![p] = draining_]
    /\ pc' = [pc EXCEPT ![p] = IF draining_ = 0 THEN "wa_store" ELSE "commit"]
    /\ UNCHANGED <<queueButPc, arenaVars, lifeVars, pollVars, writeVars, submitVars,
                   stopped_, queues_empty_, draining_, ioq, s_stopped, nworkers, poll_timer_,
                   epc, dpc, touchedFreed>>

\* work_available_impl, line 150: draining_.store(1)
work_available_store(p) ==
    /\ pc[p] = "wa_store"
    /\ draining_' = 1
    /\ pc' = [pc EXCEPT ![p] = "wa_post"]
    /\ UNCHANGED <<queueButPc, arenaVars, lifeVars, pollVars, writeVars, submitVars,
                   stopped_, queues_empty_, ioq, s_stopped, nworkers, poll_timer_,
                   epc, dpc, loaded, touchedFreed>>

\* work_available_impl, line 151: s_.post(drain_all_buffers_once(this))
work_available_post(p) ==
    /\ pc[p] = "wa_post"
    /\ ioq' = Append(ioq, "drain_all_buffers_once")
    /\ pc' = [pc EXCEPT ![p] = "commit"]
    /\ UNCHANGED <<queueButPc, arenaVars, lifeVars, pollVars, writeVars, submitVars,
                   stopped_, queues_empty_, draining_, s_stopped, nworkers, poll_timer_,
                   epc, dpc, loaded, touchedFreed>>

\* drain_all_buffers_once::operator(), lines 114-117: the thread of the
\* io_service takes the handler; it returns at once when stopped_ is set
drain_once_begin(e) ==
    /\ epc[e] = "idle"
    /\ ~s_stopped
    /\ ioq # << >> /\ Head(ioq) = "drain_all_buffers_once"
    /\ ioq' = Tail(ioq)
    /\ epc' = [epc EXCEPT ![e] = IF stopped_ = 1 THEN "idle" ELSE "drain_loop"]
    /\ touchedFreed' = (touchedFreed \/ dpc = "done")
    /\ UNCHANGED <<queueVars, arenaVars, lifeVars, pollVars, writeVars, submitVars,
                   stopped_, queues_empty_, draining_, s_stopped, nworkers, poll_timer_,
                   dpc, loaded>>

\* drain_all_buffers_once, lines 121 and 129: target_->run() is called;
\* service::impl::run takes sync_ and begins try_drain of the stream
\* (async_ostream.cpp:291-295)
low_power_run_begin ==
    /\ epc["e1"] \in {"drain_loop", "check_run"}
    /\ pc["svc"] = "idle"
    /\ sync_ = NoThread
    /\ sync_' = "svc"
    /\ result' = [result EXCEPT !["svc"] = FALSE]
    /\ pc' = [pc EXCEPT !["svc"] = "try_drain"]
    /\ epc' = [epc EXCEPT !["e1"] = IF epc["e1"] = "drain_loop" THEN "in_run" ELSE "in_check"]
    /\ UNCHANGED <<tpdVars, pageVars, buffer_, ptr, cursor, outcome, nsub, ncalls, streams_, policy,
                   destroying, freed, pendingAtDestroy, histVars,
                   arenaVars, lifeVars, pollVars, writeVars, submitVars,
                   stopped_, queues_empty_, draining_, ioq, s_stopped, nworkers, poll_timer_,
                   dpc, loaded, touchedFreed>>

\* service::impl::run returns (async_ostream.cpp:298-303) to line 121 or
\* 129 of drain_all_buffers_once: the inner loop goes on while run() is
\* true; the handler is left when the run() of line 129 is false
low_power_run_end ==
    /\ epc["e1"] \in {"in_run", "in_check"}
    /\ pc["svc"] = "td_break"
    /\ sync_' = NoThread
    /\ pc' = [pc EXCEPT !["svc"] = "idle"]
    /\ epc' = [epc EXCEPT !["e1"] =
                  CASE epc["e1"] = "in_run" /\ result["svc"] -> "drain_loop"
                    [] epc["e1"] = "in_run" /\ ~result["svc"] -> "store0"
                    [] epc["e1"] = "in_check" /\ result["svc"] -> "store1"
                    [] OTHER -> "idle"]
    /\ UNCHANGED <<tpdVars, pageVars, buffer_, ptr, cursor, result, outcome, nsub, ncalls, streams_,
                   policy, destroying, freed, pendingAtDestroy, histVars,
                   arenaVars, lifeVars, pollVars, writeVars, submitVars,
                   stopped_, queues_empty_, draining_, ioq, s_stopped, nworkers, poll_timer_,
                   dpc, loaded, touchedFreed>>

\* drain_all_buffers_once, line 126: draining_.store(0)
drain_once_store0(e) ==
    /\ epc[e] = "store0"
    /\ draining_' = 0
    /\ epc' = [epc EXCEPT ![e] = "check_run"]
    /\ UNCHANGED <<queueVars, arenaVars, lifeVars, pollVars, writeVars, submitVars,
                   stopped_, queues_empty_, ioq, s_stopped, nworkers, poll_timer_,
                   dpc, loaded, touchedFreed>>

\* drain_all_buffers_once, line 133: draining_.store(1), and the outer loop
drain_once_store1(e) ==
    /\ epc[e] = "store1"
    /\ draining_' = 1
    /\ epc' = [epc EXCEPT ![e] = "drain_loop"]
    /\ UNCHANGED <<queueVars, arenaVars, lifeVars, pollVars, writeVars, submitVars,
                   stopped_, queues_empty_, ioq, s_stopped, nworkers, poll_timer_,
                   dpc, loaded, touchedFreed>>

work_available_impl(p) ==
    work_available_load(p) \/ work_available_store(p) \/ work_available_post(p)

NextLowPower ==
    \/ \E p \in Producers : SubmitSteps(p) \/ work_available_impl(p)
    \/ drain_once_begin("e1")
    \/ low_power_run_begin
    \/ ConsumeSteps("svc")
    \/ low_power_run_end
    \/ drain_once_store0("e1")
    \/ drain_once_store1("e1")

SpecLowPower == InitLowPower /\ [][NextLowPower]_vars

\* ------------------------------------------- the shutdown of the wrappers
\* the threads inside io_service::run
Workers == IF nworkers = 1 THEN {"e1"} ELSE ExecThreads

\* everything that is not the wrapper and its io_service
notAsio == <<queueVars, arenaVars, lifeVars, pollVars, writeVars, submitVars>>

\* wrapper w is constructed on an io_service that n threads run: the
\* spinning wrapper posts its task (asio_service_wrappers.cpp:109), the
\* polling one arms its timer (72-73), the low-power one does nothing (141-144)
InitShutdown ==
    /\ InitQueue /\ policy = "idle"
    /\ InitArena /\ InitPoll /\ InitWrite /\ InitSubmitVars
    /\ \E w \in Wrappers : InitStreamOn(w)
    /\ stopped_ = 0 /\ queues_empty_ = 0 /\ draining_ = 0
    /\ ioq = IF wrapper = "asio_service_wrapper_low_overall_latency"
             THEN <<"drain_all_buffers_and_spin">> ELSE << >>
    /\ s_stopped = FALSE /\ nworkers \in {1, 2}
    /\ poll_timer_ = IF wrapper = "asio_service_wrapper_low_enqueue_latency"
                     THEN "waiting" ELSE "none"
    /\ epc = [e \in ExecThreads |-> "idle"]
    /\ dpc = "none"
    /\ loaded = [p \in Producers |-> 0]
    /\ touchedFreed = FALSE

\* a thread of the io_service takes the handler at the head of the queue
Takes(e, h) ==
    /\ e \in Workers /\ epc[e] = "idle"
    /\ ~s_stopped
    /\ ioq # << >> /\ Head(ioq) = h
    /\ ioq' = Tail(ioq)

\* set_stopped::operator() (11-15)
set_stopped(e) ==
    /\ Takes(e, "set_stopped")
    /\ stopped_' = 1
    /\ touchedFreed' = (touchedFreed \/ dpc = "done")
    /\ UNCHANGED <<notAsio, queues_empty_, draining_, s_stopped, nworkers, poll_timer_,
                   epc, dpc, loaded>>

\* set_queues_empty::operator() (20-24)
set_queues_empty(e) ==
    /\ Takes(e, "set_queues_empty")
    /\ queues_empty_' = 1
    /\ touchedFreed' = (touchedFreed \/ dpc = "done")
    /\ UNCHANGED <<notAsio, stopped_, draining_, s_stopped, nworkers, poll_timer_,
                   epc, dpc, loaded>>

\* drain_all_buffers_and_spin::operator(), lines 90-93, and
\* drain_all_buffers_and_poll::operator(), lines 52-55: the handler is
\* taken; it returns at once when stopped_ is set
drain_begin_handler(e, h) ==
    /\ h \in {"drain_all_buffers_and_spin", "drain_all_buffers_and_poll"}
    /\ Takes(e, h)
    /\ epc' = [epc EXCEPT ![e] =
                  CASE stopped_ = 1 -> "idle"
                    [] h = "drain_all_buffers_and_spin" -> "spin_run"
                    [] OTHER -> "poll_run"]
    /\ touchedFreed' = (touchedFreed \/ dpc = "done")
    /\ UNCHANGED <<notAsio, stopped_, queues_empty_, draining_, s_stopped, nworkers,
                   poll_timer_, dpc, loaded>>

\* the for (;;) of lines 57-60, 95-98, 120-123 and the run() of line 129:
\* run() is true while a registered stream has pages to drain; the stream
\* that owns the wrapper has left the list when the wrapper is destroyed
\* (async_ostream.cpp:329-331)
runs_dry(e) ==
    /\ epc[e] \in {"spin_run", "poll_run", "drain_loop", "check_run"}
    /\ \E again \in (IF dpc = "none" THEN BOOLEAN ELSE {FALSE}) :
          epc' = [epc EXCEPT ![e] =
                     CASE epc[e] = "spin_run" -> "spin_post"
                       [] epc[e] = "poll_run" -> "poll_rearm"
                       [] epc[e] = "drain_loop" -> "store0"
                       [] epc[e] = "check_run" /\ again -> "store1"
                       [] OTHER -> "idle"]
    /\ touchedFreed' = (touchedFreed \/ dpc = "done")
    /\ UNCHANGED <<notAsio, stopped_, queues_empty_, draining_, ioq, s_stopped, nworkers,
                   poll_timer_, dpc, loaded>>

\* drain_all_buffers_and_spin::operator(), line 100: the task posts itself
spin_post(e) ==
    /\ epc[e] = "spin_post"
    /\ ioq' = Append(ioq, "drain_all_buffers_and_spin")
    /\ epc' = [epc EXCEPT ![e] = "idle"]
    /\ touchedFreed' = (touchedFreed \/ dpc = "done")
    /\ UNCHANGED <<notAsio, stopped_, queues_empty_, draining_, s_stopped, nworkers,
                   poll_timer_, dpc, loaded>>

\* drain_all_buffers_and_poll::operator(), lines 62-63: expires_at and
\* async_wait on *poll_timer_
poll_rearm(e) ==
    /\ epc[e] = "poll_rearm"
    /\ poll_timer_' = IF poll_timer_ = "deleted" THEN "deleted" ELSE "waiting"
    /\ epc' = [epc EXCEPT ![e] = "idle"]
    /\ touchedFreed' = (touchedFreed \/ dpc = "done" \/ poll_timer_ = "deleted")
    /\ UNCHANGED <<notAsio, stopped_, queues_empty_, draining_, ioq, s_stopped, nworkers,
                   dpc, loaded>>

\* the deadline of poll_timer_ passes: the io_service queues the handler of
\* the async_wait
timer_expires ==
    /\ poll_timer_ = "waiting"
    /\ poll_timer_' = "expired"
    /\ ioq' = Append(ioq, "drain_all_buffers_and_poll")
    /\ UNCHANGED <<notAsio, stopped_, queues_empty_, draining_, s_stopped, nworkers,
                   epc, dpc, loaded, touchedFreed>>

\* the drain tasks that submits may leave in the queue of the io_service
MaxQueued == 3

\* a submit on the stream reaches work_available_impl (145-153) and finds
\* draining_ = 0; the stream is not being destroyed
work_available_now ==
    /\ wrapper = "asio_service_wrapper_low_power"
    /\ dpc = "none"
    /\ Len(ioq) < MaxQueued
    /\ draining_ = 0
    /\ draining_' = 1
    /\ ioq' = Append(ioq, "drain_all_buffers_once")
    /\ UNCHANGED <<notAsio, stopped_, queues_empty_, s_stopped, nworkers, poll_timer_,
                   epc, dpc, loaded, touchedFreed>>

\* io_service::stop() is called by its owner
io_service_stop ==
    /\ ~s_stopped
    /\ s_stopped' = TRUE
    /\ UNCHANGED <<notAsio, stopped_, queues_empty_, draining_, ioq, nworkers, poll_timer_,
                   epc, dpc, loaded, touchedFreed>>

\* ~asio_service_wrapper_low_enqueue_latency, line 77: s_.post(set_stopped(this))
poll_dtor_post ==
    /\ wrapper = "asio_service_wrapper_low_enqueue_latency"
    /\ dpc = "none"
    /\ ioq' = Append(ioq, "set_stopped")
    /\ dpc' = "pd_wait"
    /\ UNCHANGED <<notAsio, stopped_, queues_empty_, draining_, s_stopped, nworkers,
                   poll_timer_, epc, loaded, touchedFreed>>

\* lines 78-82: the loop ends when stopped_ is set or the io_service is stopped
poll_dtor_wait ==
    /\ dpc = "pd_wait"
    /\ stopped_ = 1 \/ s_stopped
    /\ dpc' = "pd_cancel"
    /\ UNCHANGED <<notAsio, stopped_, queues_empty_, draining_, ioq, s_stopped, nworkers,
                   poll_timer_, epc, loaded, touchedFreed>>

\* deadline_timer::cancel: a pending async_wait completes with
\* operation_aborted, its handler is queued
Cancelled(q) == IF poll_timer_ = "waiting" THEN Append(q, "drain_all_buffers_and_poll") ELSE q

\* lines 84-85: poll_timer_->cancel()
poll_dtor_cancel ==
    /\ dpc = "pd_cancel"
    /\ ioq' = Cancelled(ioq)
    /\ poll_timer_' = "cancelled"
    /\ dpc' = "pd_members"
    /\ UNCHANGED <<notAsio, stopped_, queues_empty_, draining_, s_stopped, nworkers,
                   epc, loaded, touchedFreed>>

\* line 86 and asio_service_wrappers.hpp:38: the scoped_ptr deletes the
\* timer, whose destructor cancels what is pending; the destructor of the
\* base class follows
poll_dtor_members ==
    /\ dpc = "pd_members"
    /\ ioq' = Cancelled(ioq)
    /\ poll_timer_' = "deleted"
    /\ dpc' = "base"
    /\ UNCHANGED <<notAsio, stopped_, queues_empty_, draining_, s_stopped, nworkers,
                   epc, loaded, touchedFreed>>

\* ~asio_service_wrapper, line 30: s_.post(set_stopped(this))
base_dtor_post_stopped ==
    /\ \/ dpc = "base"
       \/ dpc = "none" /\ wrapper # "asio_service_wrapper_low_enqueue_latency"
    /\ ioq' = Append(ioq, "set_stopped")
    /\ dpc' = "b_wait_stopped"
    /\ UNCHANGED <<notAsio, stopped_, queues_empty_, draining_, s_stopped, nworkers,
                   poll_timer_, epc, loaded, touchedFreed>>

\* lines 31-35
base_dtor_wait_stopped ==
    /\ dpc = "b_wait_stopped"
    /\ stopped_ = 1 \/ s_stopped
    /\ dpc' = "b_post_empty"
    /\ UNCHANGED <<notAsio, stopped_, queues_empty_, draining_, ioq, s_stopped, nworkers,
                   poll_timer_, epc, loaded, touchedFreed>>

\* line 37: s_.post(set_queues_empty(this))
base_dtor_post_empty ==
    /\ dpc = "b_post_empty"
    /\ ioq' = Append(ioq, "set_queues_empty")
    /\ dpc' = "b_wait_empty"
    /\ UNCHANGED <<notAsio, stopped_, queues_empty_, draining_, s_stopped, nworkers,
                   poll_timer_, epc, loaded, touchedFreed>>

\* lines 38-44: the loop ends, the destructor returns, service::~service
\* deletes impl_ and the memory of the wrapper is freed
base_dtor_wait_empty ==
    /\ dpc = "b_wait_empty"
    /\ queues_empty_ = 1 \/ s_stopped
    /\ dpc' = "done"
    /\ UNCHANGED <<notAsio, stopped_, queues_empty_, draining_, ioq, s_stopped, nworkers,
                   poll_timer_, epc, loaded, touchedFreed>>

Handlers ==
    \E e \in ExecThreads :
        \/ set_stopped(e) \/ set_queues_empty(e)
        \/ \E h \in {"drain_all_buffers_and_spin", "drain_all_buffers_and_poll"} :
              drain_begin_handler(e, h)
        \/ drain_once_begin(e) /\ e \in Workers
        \/ runs_dry(e) \/ spin_post(e) \/ poll_rearm(e)
        \/ drain_once_store0(e) \/ drain_once_store1(e)

WrapperDestructor ==
    \/ poll_dtor_post \/ poll_dtor_wait \/ poll_dtor_cancel \/ poll_dtor_members
    \/ base_dtor_post_stopped \/ base_dtor_wait_stopped
    \/ base_dtor_post_empty \/ base_dtor_wait_empty

NextShutdown ==
    Handlers \/ timer_expires \/ work_available_now \/ io_service_stop \/ WrapperDestructor

SpecShutdown == InitShutdown /\ [][NextShutdown]_vars

\* every thread that can take a step takes one in the end; nothing obliges
\* the condition variable to wake spuriously or the caller to submit
SpecLifeFair ==
    /\ SpecLife
    /\ WF_vars(Worker)
    /\ WF_vars(Control)
    /\ WF_vars(Construct)
    /\ WF_vars(work_available)

\* ------------------------------------------------------------------ claims
Count(seq, x) == Cardinality({i \in DOMAIN seq : seq[i] = x})

\* the work items whose add has been made
Submitted == {x \in Items : x[2] <= nsub[x[1]]}

\* what the sink has seen of producer p, in the order it saw it
AppliedOf(p) == SelectSeq(applied, LAMBDA x : x[1] = p)

AllApplied == \A x \in Submitted : Count(applied, x) >= 1

AllAppliedOnce == \A x \in Submitted : Count(applied, x) = 1

NoTransactionOpen == \A t \in Threads : buffer_[t] = 0

\* no producer is inside a submit and no drainer is inside try_drain
Quiescent ==
    /\ NoTransactionOpen
    /\ \A p \in Producers : pc[p] = "idle"
    /\ \A t \in Drainers : pc[t] \in {"idle", "td_break", "d_loop", "d_free", "done"}

\* C1: with one drainer, what the sink has seen of each producer is, at any
\* time, its submissions s1..sm in submission order with none left out.
C1_FifoPerProducer ==
    \A p \in Producers : \A j \in 1..Len(AppliedOf(p)) : AppliedOf(p)[j] = <<p, j>>

\* the order alone: what was applied of a producer was applied in the order
\* of submission
AppliedInSubmissionOrder ==
    \A p \in Producers : \A j, k \in 1..Len(AppliedOf(p)) :
        j < k => AppliedOf(p)[j][2] < AppliedOf(p)[k][2]

\* C2: with one drainer every committed work item is applied exactly once:
\* never twice, none skipped once the queue has been drained to empty, and
\* no page is cleared or appended to under the drainer.
C2_AppliedExactlyOnce ==
    /\ \A x \in Items : Count(applied, x) <= 1
    /\ (Quiescent /\ empty) => AllAppliedOnce
    /\ ~raced

\* C3: a page bound to an open consume transaction is not the inserter page
\* and no producer clears it or appends to it, whatever the number of threads
\* calling try_consume.
C3_DrainedPageNotInserter ==
    /\ \A t \in Drainers : Consuming(t) => buffer_[t] # inserter_
    /\ ~raced

\* C4: whoever executed switch_pages held inserting_ and consuming_.
C4_SwitchHoldsBothLocks == switchLog.inserting /\ switchLog.consuming

\* C5: at most one consume transaction is bound at any time, and the thread
\* it is bound to holds consuming_; no other caller of try_consume is bound
\* or draining while it is.
C5_AtMostOneDrainer ==
    \A t \in Drainers :
        buffer_[t] # 0 =>
            /\ consuming_ = t
            /\ \A u \in Drainers \ {t} : buffer_[u] = 0 /\ ~Consuming(u)

C5_Witness ==
    \E t \in Drainers : \E u \in Drainers \ {t} :
        /\ Consuming(t) /\ outcome[t] = "success"
        /\ pc[u] = "td_break" /\ outcome[u] = "too_many_consumers"

\* C6: when the destructor of a stream whose queue was not empty frees the
\* stream, the stream is deregistered, the queue is empty and every committed
\* work item has been applied exactly once.
C6_DestructorDrainsAll ==
    (freed /\ pendingAtDestroy) => (~streams_ /\ empty /\ AllAppliedOnce)

\* the same for the idle service, where only the destructor drains
DestructorDrainsAllWhenIdle ==
    (freed /\ policy = "idle") => (~streams_ /\ empty /\ AllAppliedOnce)

C8_EmptyIffAllApplied == NoTransactionOpen => (empty <=> AllApplied)

\* one direction of it: when everything has been applied the queue is empty
AllAppliedImpliesEmpty == NoTransactionOpen => (AllApplied => empty)

\* C9: in every reachable state, threads calling try_consume concurrently
\* included, last_inserted_sn >= last_enqueued_sn >= last_consumed_sn.
C9_SequenceOrder ==
    /\ last_inserted_sequence_number_ >= last_enqueued_sequence_number_
    /\ last_enqueued_sequence_number_ >= last_consumed_sequence_number_

\* C10: no step lowers last_inserted_sn, last_enqueued_sn or
\* last_consumed_sn, and every switch hands the consumer a page whose
\* sequence number is greater than that of the page it had.
C10_Monotone ==
    [][ /\ last_inserted_sequence_number_' >= last_inserted_sequence_number_
        /\ last_enqueued_sequence_number_' >= last_enqueued_sequence_number_
        /\ last_consumed_sequence_number_' >= last_consumed_sequence_number_
        /\ consumer_' # consumer_ =>
               sequence_number_'[consumer_'] > sequence_number_[consumer_] ]_vars

\* C11: the inserter page and the consumer page are two different pages and
\* together are the two pages given to init; the bodies of switch_pages never
\* overlap, because whoever runs one holds inserting_.
C11_TwoDistinctPages ==
    /\ inserter_ # consumer_
    /\ {inserter_, consumer_} = Pages
    /\ switchLog.inserting

\* the pages have been switched an odd number of times: the page that init
\* made the consumer page is the inserter page
C11_Witness == switches = 3 /\ inserter_ = 2 /\ consumer_ = 1

\* C12: in every quiescent state with the queue empty, as many switch_pages
\* have run as begin_insert calls have returned inserting_into_new_page.
C12_Alternation == (Quiescent /\ empty) => switches = generations

\* at any time the generations are at most one ahead of the switches
GenerationsLeadByOne == generations - switches \in {0, 1}

C12_Witness == Quiescent /\ empty /\ switches = 2 /\ generations = 2

\* the positions inside try_consume (tpd.hpp:242-277), insert_transaction::
\* commit (224-240) and consume_transaction::commit (279-293), each with the
\* number of the step it is within its function
StepNumber ==
    [tc_check |-> 1, tc_try_inserting |-> 2, tc_couldnt |-> 3, tc_switch |-> 3,
     tc_recheck |-> 4, tc_lock |-> 5, tc_bind |-> 6, tc_load |-> 7, tc_stamp |-> 8,
     commit |-> 1, c_try |-> 2, c_switch |-> 3, c_caught_up |-> 4, c_release |-> 5,
     c_unlock |-> 6,
     cc_try |-> 1, cc_switch |-> 2, cc_release |-> 3, cc_unlock |-> 4]

NonBlocking == DOMAIN StepNumber

Returned == 9

Rank(l) == IF l \in NonBlocking THEN StepNumber[l] ELSE Returned

StepOf(t) == IF t \in Producers THEN ProducerSteps(t) ELSE ConsumeSteps(t)

\* a thread inside one of the three functions can take its next step now,
\* whatever the other threads hold (the counter consumer_couldnt_switch_ is
\* capped in the model, which stops the complaint at the cap)
CanStep(t) ==
    (pc[t] \in NonBlocking /\ consumer_couldnt_switch_ < MaxCouldntSwitch) => ENABLED StepOf(t)

\* every step moves one thread; inside the three functions it moves it forward
MovesForward ==
    /\ \A t \in Threads :
          (pc[t] \in NonBlocking /\ pc'[t] # pc[t]) => Rank(pc'[t]) > Rank(pc[t])
    /\ (\A t \in Threads : pc'[t] = pc[t]) =>
          \E t \in Drainers : pc[t] = "drain" /\ cursor'[t] = cursor[t] + 1

\* the holder of inserting_ waits for nothing: between begin_insert and commit
\* it runs the caller's construction of the work item, and everywhere else it
\* is inside a function that only try-locks
HolderRuns ==
    inserting_ # NoThread =>
        /\ pc[inserting_] \in NonBlocking \cup {"add", "w_unlock"}
        /\ consumer_couldnt_switch_ < MaxCouldntSwitch => ENABLED StepOf(inserting_)

\* a producer thread that may call begin_insert or warmup_before_inserting
WantsToInsert(p) == pc[p] = "idle" /\ ~destroying /\ inserting_ # NoThread

\* C13: the queue cannot deadlock: try_consume and the two commit functions
\* finish within Returned of their own steps whatever the other threads do,
\* and a thread waiting in begin_insert or warmup waits for the holder of
\* inserting_, which is another producer's open transaction or a consumer
\* inside the try-locked section of try_consume or of its commit, and which
\* waits for nothing.
C13_NoDeadlock ==
    /\ [](\A t \in Threads : CanStep(t))
    /\ [](HolderRuns)
    /\ [][MovesForward]_vars

\* C13 as stated: a producer that waits in begin_insert or warmup waits only
\* for another producer's open transaction.
C13_WaitsOnlyForProducer ==
    \A p \in Producers : WantsToInsert(p) => inserting_ \in Producers \ {p}

\* one producer commits and try-locks consuming_ while the consumer holds it,
\* the other producer waits for the first
C13_Witness ==
    /\ pc["p1"] = "c_try" /\ consuming_ = "svc"
    /\ WantsToInsert("p2") /\ nsub["p2"] < Quota("p2")


\* ------------------------------------------------------------- the arena
\* a call of drain has returned
DrainReturned == lastOp = "drain" /\ apc = "idle"

\* the callback of error_policy that is declared for what was thrown
\* (stream.hpp, error_policy)
CallbackFor(kind) ==
    CASE kind = "boost" -> "catch_boost_exception"
      [] kind = "std" -> "catch_std_exception"
      [] kind = "unknown" -> "catch_unknown_exception"

\* the work items among the visited ones whose apply raised
Raised == SelectSeq(visited, LAMBDA k : kindOf[k] # "ok")

\* C14: when apply raises during drain and an error handler is installed, the
\* failure is reported exactly once, through the callback for its kind; the
\* drain goes on and when it returns every item of the chain has been applied
\* in order; nothing escapes drain.
C14_ErrorIsolation ==
    /\ ~escaped
    /\ ep_ = "policy" =>
          reports = [i \in 1..Len(Raised) |-> <<CallbackFor(kindOf[Raised[i]]), Raised[i]>>]
    /\ ep_ = "NULL" => reports = << >>
    /\ apc = "drain" => visited = SubSeq(added, 1, Len(visited))
    /\ DrainReturned => visited = added

C14_Witness ==
    /\ DrainReturned /\ ep_ = "policy"
    /\ kindOf = <<"boost", "unknown", "ok">>
    /\ visited = <<1, 2, 3>>
    /\ Len(reports) = 2

\* C15: for every sequence of adds, each with or without a payload allocate,
\* page growths included, the chain holds exactly the added items in add
\* order, drain visits each once in that order, and the page breaks it passes
\* change nothing; no access leaves the storage of a page.
C15_RoundTrip ==
    /\ ~wild
    /\ apc = "idle" => ChainItems(mem, first_) = added
    /\ DrainReturned => visited = added /\ Len(reports) <= Len(visited)

C15_Witness ==
    /\ DrainReturned
    /\ visited = <<1, 2, 3>>
    /\ breaks = 2
    /\ Cardinality(DOMAIN heap) = 3

\* clear has just returned
Cleared == lastOp \in {"clear", "clear_again"}

\* C16: clear() on an arena that has grown frees every page except the last
\* one of the chain of pages (the newest and largest) and resets the cursors
\* to the beginning of that page.
C16_ClearKeepsLastPage ==
    Cleared =>
        /\ DOMAIN heap = {lastBefore}
        /\ first_ = lastBefore /\ last_ = lastBefore
        /\ cursor_ = <<lastBefore, 0>>
        /\ end_of_page_ = <<lastBefore, EndOffset(heap[lastBefore].size)>>
        /\ prev_cursor_ = NULL

\* C16 as stated: the page retained after clear is the page that was the head
\* before clear.
C16_ClearKeepsHead == Cleared => first_ = firstBefore

C16_Witness == Cleared /\ Cardinality(heapBefore) = 3 /\ first_ = 3

\* C17: after clear() the chain is empty, one page remains, a second clear()
\* changes no field and no word of the arena and destroys nothing, and no
\* work item is ever destroyed twice; a drain of the cleared arena applies
\* nothing.
ClearedIsEmpty ==
    /\ Cleared =>
          /\ IsZero(mem, <<first_, 0>>)
          /\ ChainItems(mem, first_) = << >>
          /\ Cardinality(DOMAIN heap) = 1
    /\ \A k \in 1..nadds : Count(destroyed, k) <= 1
    /\ (DrainReturned /\ added = << >>) => visited = << >>

SecondClearChangesNothing ==
    (Cleared /\ nclears' = nclears + 1) => (implVars' = implVars /\ destroyed' = destroyed)

C17_ClearIdempotent == []ClearedIsEmpty /\ [][SecondClearChangesNothing]_vars

C17_Witness ==
    /\ lastOp = "clear_again"
    /\ Len(destroyed) = 3
    /\ npages = 3


\* ------------------------------------------------- constructors, services
Bound(ptr_) == ptr_ # "NULL"

\* C18: every constructed stream has at least one of its sink and source
\* bound, and has bound exactly the ones the caller supplied.
C18_BindsWhatWasSupplied ==
    ctl \notin {"none", "constructed"} =>
        /\ Bound(ostream_) \/ Bound(istream_)
        /\ Bound(ostream_) <=> supplied.sink
        /\ Bound(istream_) <=> supplied.source

\* the constructors that take a service bind what they are given
ServiceConstructorsBind ==
    (ctl \notin {"none", "constructed"} /\ ~owner_) =>
        /\ Bound(ostream_) \/ Bound(istream_)
        /\ Bound(ostream_) <=> supplied.sink
        /\ Bound(istream_) <=> supplied.source

\* C19: for both services, when join() has returned after stop() the worker
\* thread has ended, stopped() is true and the worker runs no further run().
C19_JoinMeansTerminated ==
    ctl = "joined" => (wpc = "done" /\ actually_stopped_ /\ runsAfterJoin = 0)

\* the polling service does what C19 says
PollingJoinMeansTerminated ==
    (ctl = "joined" /\ service_kind = "polling") =>
        (wpc = "done" /\ actually_stopped_ /\ runsAfterJoin = 0)

\* C20: under the waiting policy, once stop() has been called the worker
\* eventually leaves its loop, performs the final run() and terminates.
C20_StopTerminatesWorker ==
    (service_kind = "waiting" /\ stop_requested_) ~> (wpc = "done" /\ finalRun)

\* stop() has returned and the worker is left inside wait with nobody about
\* to notify
StopNeverStrandsWorker ==
    ~(service_kind = "waiting" /\ ctl \in {"stopped", "joined"} /\ wpc = "waiting"
      /\ ppc = "idle")

\* the polling worker terminates after stop()
PollingStopTerminatesWorker ==
    (service_kind = "polling" /\ stop_requested_) ~> (wpc = "done" /\ finalRun)


\* ------------------------------------------------------- the queue, again
\* thread t leaves try_consume with cr_too_many_consumers in this step
ReturnsTooMany(t) == pc[t] = "tc_lock" /\ pc'[t] = "td_break"

\* C28: try_consume returns too_many_consumers only when the try-lock of
\* consuming_ fails, that is when another thread holds consuming_: a drainer
\* with an open consume transaction, or a producer that took over the switch
\* inside insert_transaction::commit.
C28_TooManyOnlyWhenHeld ==
    [][\A t \in Drainers :
          ReturnsTooMany(t) =>
              \/ consuming_ \in Drainers \ {t}
              \/ /\ consuming_ \in Producers
                 /\ pc[consuming_] \in {"c_switch", "c_caught_up", "c_release"}]_vars

\* C28 as stated: only another drainer's open transaction makes try_consume
\* return too_many_consumers; never with one consumer thread.
C28_TooManyOnlyFromDrainer ==
    [][\A t \in Drainers : ReturnsTooMany(t) => consuming_ \in Drainers \ {t}]_vars

C28_Witness ==
    /\ outcome["svc"] = "too_many_consumers" /\ pc["svc"] = "td_break"
    /\ consuming_ \in Producers


\* producer p returns from begin_insert in this step
BeginInsertReturns(p) == pc[p] = "idle" /\ pc'[p] = "add"

\* C29: begin_insert returns inserting_into_new_page = true exactly when the
\* page it bound the transaction to holds no work item at the moment it
\* returns, and false exactly when that page still holds items placed since
\* it was last cleared.
C29_NewPageIffEmpty ==
    [][\A p \in Producers :
          BeginInsertReturns(p) =>
              (inserting_into_new_page <=> chain'[buffer_'[p]] = << >>)]_vars

\* begin_insert has returned false on a page with items, after the pages
\* have been switched and a handed-back page has been cleared
C29_Witness ==
    /\ pc["p1"] = "add" /\ chain[buffer_["p1"]] # << >>
    /\ sequence_number_[buffer_["p1"]] = seq_no_generator_
    /\ switches >= 2 /\ generations >= 3


\* producer p runs the body of warmup_before_inserting in this step
WarmupRuns(p) == pc[p] = "idle" /\ pc'[p] = "w_unlock"

\* producer p leaves warmup_before_inserting in this step
WarmupReturns(p) == pc[p] = "w_unlock" /\ pc'[p] = "idle"

\* the sequence counters of the queue
SequenceCounters ==
    <<seq_no_generator_, last_inserted_sequence_number_,
      last_enqueued_sequence_number_, last_consumed_sequence_number_>>

\* C30: warmup_before_inserting takes and releases inserting_, draws no
\* sequence number and leaves the four sequence counters alone; a
\* handed-back inserter page (tag below last_enqueued) is cleared and its
\* tag is set to last_enqueued, any other page and tag are left unchanged.
C30_WarmupFrame ==
    [][\A p \in Producers :
          /\ WarmupRuns(p) =>
                /\ inserting_ = NoThread /\ inserting_' = p
                /\ UNCHANGED <<SequenceCounters, inserter_, consumer_>>
                /\ IF sequence_number_[inserter_] < last_enqueued_sequence_number_
                   THEN /\ chain' = ClearPage(inserter_)
                        /\ sequence_number_' =
                              [sequence_number_ EXCEPT ![inserter_] = last_enqueued_sequence_number_]
                   ELSE UNCHANGED <<chain, sequence_number_>>
          /\ WarmupReturns(p) =>
                /\ inserting_ = p /\ inserting_' = NoThread
                /\ UNCHANGED <<SequenceCounters, inserter_, consumer_, chain, sequence_number_>>]_vars

\* C30 as stated: the inserter page's sequence tag is unchanged as well
C30_WarmupKeepsTag ==
    [][\A p \in Producers :
          WarmupRuns(p) => UNCHANGED <<SequenceCounters, sequence_number_>>]_vars

\* warmup has cleared a handed-back page: only line 191 makes the tag of
\* the inserter page equal to a positive last_enqueued
C30_Witness ==
    /\ pc["p1"] = "w_unlock"
    /\ switches >= 1
    /\ sequence_number_[inserter_] = last_enqueued_sequence_number_
    /\ chain[inserter_] = << >>


\* ------------------------------------------------- the polling worker's runs
\* C21: under the polling policy, every work item whose submit had returned
\* when stop() was called has been applied once the worker reports stopped.
C21_CommittedBeforeStopApplied ==
    (service_kind = "polling" /\ actually_stopped_) =>
        \A x \in committedAtStop : Count(applied, x) >= 1

\* the worker runs run() once more after it has seen the stop request
\* (services.cpp:50) and only then reports stopped
FinalRunBeforeStopped == actually_stopped_ => (stop_requested_ /\ finalRun)


\* the same when no submit was begun after stop() was called
AppliedWhenNoSubmitAfterStop ==
    (service_kind = "polling" /\ actually_stopped_
        /\ pc["p1"] = "idle" /\ Submitted = committedAtStop) =>
        \A x \in committedAtStop : Count(applied, x) >= 1


\* C27: a call of run() returns true exactly when at least one registered
\* stream drained at least one page during the call, and it flushes every
\* registered stream when it returns true and none when it returns false.
C27_RunResultAndFlush ==
    run_result # "none" =>
        /\ (run_result = "true") <=> (drainedInRun # {})
        /\ flushed = IF run_result = "true" THEN Streams ELSE {}

\* a call of run() in which only the second stream drained a page has
\* returned true and flushed both streams
C27_Witness ==
    /\ run_result = "true" /\ drainedInRun = {2} /\ flushed = Streams
    /\ ~empty /\ pc["svc"] = "idle"


\* ------------------------------------------------------- async_write_some
RECURSIVE Concat(_)
Concat(ss) == IF ss = << >> THEN << >> ELSE Head(ss) \o Concat(Tail(ss))

\* the bytes of the writes that left the sink good, in order
WrittenGood ==
    Concat([i \in 1..Len(writes) |->
               IF writes[i].after = goodbit THEN submitted[i] ELSE << >>])

\* C26: a drained async-write work item writes the bytes captured at submit
\* to the sink, and then its completion handler is called exactly once, with
\* the state of the sink after the write as status and the number of bytes
\* submitted as count; no handler runs before its write.
C26_WriteThenHandlerOnce ==
    /\ Len(handled) <= Len(writes) /\ Len(writes) <= Len(submitted)
    /\ Len(writes) = Len(handled) + Len(applying)
    /\ Len(submitted) = Len(writes) + Len(items_)
    /\ \A i \in 1..Len(writes) : writes[i].bytes = submitted[i]
    /\ sink_bytes = WrittenGood
    /\ \A i \in 1..Len(handled) :
          handled[i] = <<ErrorCode(writes[i].after), Len(submitted[i])>>

\* "data" was submitted, the caller reused its buffer before the drain, the
\* sink was good: it holds "data" and the handler got goodbit and 4
C26_Witness ==
    /\ Len(handled) = 1 /\ items_ = << >> /\ applying = << >>
    /\ submitted[1] = <<"d", "a", "t", "a">> /\ user_bytes = <<"x", "y">>
    /\ sink_bytes = <<"d", "a", "t", "a">>
    /\ handled[1] = <<0, 4>>

\* "data" on a good sink: the handler got goodbit and 4
DataOnGoodSink ==
    \A i \in 1..Len(handled) :
        (submitted[i] = <<"d", "a", "t", "a">> /\ writes[i].before = goodbit
            /\ writes[i].after = goodbit) => handled[i] = <<0, 4>>


\* ------------------------------------------------- the low-power wrapper
\* no drain task is queued on the io_service or running on its thread
NoDrainTask ==
    /\ \A i \in 1..Len(ioq) : ioq[i] # "drain_all_buffers_once"
    /\ \A e \in ExecThreads : epc[e] = "idle"

\* C22: under the low-power policy, whenever every producer has finished its
\* submits and no drain task is queued or running, the queue of the stream
\* is empty.
C22_NoStrandedWork ==
    (policy = "low_power" /\ (\A p \in Producers : pc[p] = "idle") /\ NoDrainTask) => empty

\* C23: under the low-power policy, a caller of work_available that posts a
\* drain task has itself moved draining_ from 0 to 1: the flag is 0 when it
\* makes the store that precedes its post.
C23_PostOnlyAfterOwnTransition ==
    [][\A p \in Producers :
          (pc[p] = "wa_store" /\ pc'[p] = "wa_post") => draining_ = 0]_vars

\* ------------------------------------------- the shutdown of the wrappers
\* the destructor of the wrapper has returned and both sentinels have run
FreedAfterSentinels == dpc = "done" /\ stopped_ = 1 /\ queues_empty_ = 1

\* no drain task or timer callback of the wrapper is running or queued, and
\* none can be posted any more: no timer is pending
NothingLeft ==
    /\ \A e \in ExecThreads : epc[e] = "idle"
    /\ ioq = << >>
    /\ poll_timer_ # "waiting"
    /\ ~touchedFreed

\* C24: for each of the three wrappers and an io_service run by one or more
\* threads, once the destructor has seen both sentinels run and returns, no
\* drain task or timer callback of the wrapper is running, queued or yet to
\* be posted.
C24_NothingAfterSentinels == FreedAfterSentinels => NothingLeft

\* the same for an io_service that a single thread runs
SingleWorkerNothingAfterSentinels == (nworkers = 1 /\ FreedAfterSentinels) => NothingLeft

\* C25: in the destructor of the polling wrapper on a running io_service,
\* the poll timer is cancelled only after both sentinels have run:
\* set_stopped and set_queues_empty.
C25_CancelAfterBothSentinels ==
    [][(dpc = "pd_cancel" /\ dpc' = "pd_members" /\ ~s_stopped) =>
          (stopped_ = 1 /\ queues_empty_ = 1)]_vars

\* the poll timer is cancelled only after set_stopped has run, unless the
\* io_service was stopped
CancelAfterSetStopped ==
    [][(dpc = "pd_cancel" /\ dpc' = "pd_members") => (stopped_ = 1 \/ s_stopped)]_vars

\* ------------------------------------------------------ the arena's chain
\* the word at which the walk of lines 239 and 258 from c stops
RECURSIVE ChainEnd(_, _, _)
ChainEnd(m, c, fuel) ==
    IF fuel = 0 \/ ~IsLink(m, c) THEN c
    ELSE ChainEnd(m, Target(m, c), fuel - 1)

\* the record at c holds a page_break, or a work item that was added and
\* whose destructor has not run
LiveRecord(m, c) ==
    /\ Worklet(c) \in DOMAIN m
    /\ \/ m[Worklet(c)] = PageBreak
       \/ /\ m[Worklet(c)][1] = "obj"
          /\ Count(added, m[Worklet(c)][2]) = 1
          /\ Count(destroyed, m[Worklet(c)][2]) = 0

\* the chain from first_->storage_begin_: links inside the storage of live
\* pages, no record met twice, a 0 at the end
WellFormedChain ==
    LET recs == Records(mem, <<first_, 0>>, MaxRecords)
        last_link == ChainEnd(mem, <<first_, 0>>, MaxRecords)
    IN /\ IsZero(mem, last_link) /\ InStorage(heap, last_link)
       /\ \A i \in DOMAIN recs :
             /\ InStorage(heap, recs[i])
             /\ LiveRecord(mem, recs[i])
             /\ \A j \in DOMAIN recs : recs[i] = recs[j] => i = j

\* the page_break records of the chain
ChainBreaks(m, f) ==
    LET recs == Records(m, <<f, 0>>, MaxRecords)
    IN {i \in DOMAIN recs : Worklet(recs[i]) \in DOMAIN m /\ m[Worklet(recs[i])] = PageBreak}

\* an add that did not fit in the tail page has returned
AddGrows == apc = "idle" /\ apc' = "constructing" /\ npages' = npages + 1
\* a payload allocate that did not fit in the tail page has returned
AllocateGrows == apc = "constructing" /\ lastOp' = "allocate" /\ npages' = npages + 1

\* the page_break is in the word after the old terminator, whose link goes
\* to the first record of the new page: the record of the item added
AddGrowsWithPageBreak ==
    AddGrows =>
        /\ mem'[Worklet(cursor_)] = PageBreak
        /\ mem'[cursor_] = Link(<<npages', 0>>)
        /\ mem'[Worklet(<<npages', 0>>)] = Obj(nadds')
        /\ Cardinality(ChainBreaks(mem', first_)) = Cardinality(ChainBreaks(mem, first_)) + 1

\* the link of the item under construction goes to the new page, past the
\* payload at its beginning, and no page_break is added
AllocateGrowsRedirects ==
    AllocateGrows =>
        /\ mem'[prev_cursor_] = Link(cursor_')
        /\ cursor_'[1] = npages' /\ cursor_'[2] > 0
        /\ last_allocated_' = <<npages', 0>>
        /\ prev_cursor_' = prev_cursor_
        /\ Cardinality(ChainBreaks(mem', first_)) = Cardinality(ChainBreaks(mem, first_))

\* C31: whenever the arena can be drained or cleared (no add is under way)
\* the chain from the first page's first link is a well-formed singly linked
\* list ended by 0 in which every record holds a live work item; an add that
\* does not fit puts a page_break in the tail slot of the old page, linked
\* to the first record of the new page; a payload allocate that does not fit
\* redirects the item's link past the payload on the new page, without a
\* page_break.
C31_ChainWellFormed ==
    /\ []((apc \in {"idle", "drain"}) => WellFormedChain)
    /\ [][AddGrowsWithPageBreak /\ AllocateGrowsRedirects]_vars

C31_Witness ==
    /\ apc = "idle" /\ lastOp = "allocate"
    /\ npages = 3
    /\ Cardinality(ChainBreaks(mem, first_)) = 1
    /\ Len(Records(mem, <<first_, 0>>, MaxRecords)) = 3
    /\ WellFormedChain

\* ------------------------------------------------- the sizes of the pages
\* a call of allocate did not fit in the tail page
Grows == npages >= 1 /\ npages' = npages + 1
\* the bytes between storage_begin_ and storage_end_ of the tail page
TailCapacity == StorageBytes(heap[last_].size)

Reserved == lastOp \in {"add", "allocate"}
\* the bytes from the address returned to the terminating link slot
BytesReserved == WordBytes * (cursor_[2] - last_allocated_[2])
\* the addresses are pointers to std::size_t: words of the page's array
ByteOffset(a) == WordBytes * a[2]

\* C39: for every size requested and every position of the cursor, the words
\* that add and allocate reserve (the link of the record, at least the bytes
\* requested, the terminating link slot after them, the page_break of a
\* growth) lie in the array of one page, and the link slots and the address
\* returned are word-aligned.
C39_ReservedInsideOnePage ==
    /\ ~wild
    /\ Reserved =>
          /\ InStorage(heap, last_allocated_) /\ InStorage(heap, cursor_)
          /\ cursor_[1] = last_allocated_[1] /\ cursor_[1] = last_
          /\ BytesReserved >= requested
          /\ cursor_[2] < end_of_page_[2]
          /\ IsZero(mem, cursor_)
          /\ lastOp = "add" => prev_cursor_ = last_allocated_
          /\ IsLink(mem, prev_cursor_) /\ Target(mem, prev_cursor_) = cursor_
          /\ \A a \in {last_allocated_, cursor_, prev_cursor_} : ByteOffset(a) % WordBytes = 0
    /\ npages >= 1 => InStorage(heap, Worklet(cursor_))

C39_Witness ==
    /\ lastOp = "add" /\ requested = 4072
    /\ npages = 1 /\ cursor_ = <<1, 510>>
    /\ end_of_page_ = <<1, 511>>
    /\ ~wild

\* ------------------------------------------- a submit from inside a drain
\* the submit that a handler made from inside drain has returned
NestedSubmitReturned == nsub[Handler] >= 1 /\ pc[Handler] = "idle"

\* C33 as stated: a handler that submits into the stream being drained
\* deadlocks the service thread, the submit never returns.
C33_NestedSubmitDeadlocks == ~NestedSubmitReturned

\* while it applies work items the service thread holds consuming_ and
\* does not hold inserting_, the only lock begin_insert waits for
DrainHoldsConsumingOnly ==
    InHandler => (consuming_ = "svc" /\ inserting_ # "svc")

\* C33: a handler that, running inside a drain on the service thread,
\* submits a work item into the same stream does not deadlock: the service
\* thread holds consuming_ only, begin_insert waits for inserting_ only, the
\* commit of the nested transaction merely tries consuming_, and the submit
\* returns.
C33_NestedSubmitReturns ==
    /\ []DrainHoldsConsumingOnly
    /\ HandlerSubmits ~> NestedSubmitReturned

C33_Witness ==
    /\ NestedSubmitReturned
    /\ Count(applied, <<Handler, 1>>) = 1
    /\ pc["svc"] = "idle"

NeverAsleepOnWork ==
    ~(wpc = "waiting" /\ pc["p1"] = "idle" /\ \E x \in Committed : Count(applied, x) = 0)

\* ------------------------------------------- the assertion of switch_pages
\* C35: the assertion of switch_pages holds at every call: the page that
\* becomes the consumer page bears a sequence number greater than
\* last_enqueued_sequence_number_, whether try_consume, the consumer's commit
\* or the producer's commit makes the switch, with or without warmup.
C35_SwitchAssertionHolds ==
    [][switches' = switches + 1 =>
          /\ sequence_number_[inserter_] > last_enqueued_sequence_number_
          /\ consumer_' = inserter_
          /\ last_enqueued_sequence_number_' = sequence_number_[inserter_]
          /\ switchLog'.asserted]_vars

C35_Witness ==
    /\ switchLog.site = "insert_commit" /\ switchLog.asserted
    /\ switches >= 2
    /\ sequence_number_[inserter_] = last_enqueued_sequence_number_
    /\ \A t \in Threads : pc[t] = "idle"

\* the results of try_consume without the consumed flag
NotConsumed == {"no_more_work", "queue_not_empty", "too_many_consumers"}

ReturnedNotConsumed(t) == pc[t] = "td_break" /\ outcome[t] \in NotConsumed

\* from the return of cr_success to the call of commit
ReturnedSuccess(t) == pc[t] \in {"drain", "cc_try"}

\* a step that takes consuming_ away from a consumer is that consumer's commit
\* of a bound transaction, which it unbinds
ReleasedByBoundCommit ==
    (consuming_ \in Drainers /\ consuming_' # consuming_) =>
        /\ consuming_' = NoThread
        /\ pc[consuming_] = "cc_unlock"
        /\ buffer_[consuming_] # 0
        /\ buffer_'[consuming_] = 0

\* the second commit of a committed transaction touches no lock
SecondCommitReleasesNothing ==
    \A t \in Drainers :
        (pc[t] = "cc_again" /\ pc'[t] # "cc_again") =>
            /\ pc'[t] = "try_drain"
            /\ consuming_' = consuming_
            /\ inserting_' = inserting_
            /\ buffer_'[t] = 0

\* C36: when try_consume returns no_more_work, queue_not_empty or
\* too_many_consumers the caller holds neither inserting_ nor consuming_ and
\* its transaction is unbound; when it returns success the caller holds
\* consuming_ and not inserting_, with the transaction bound, until commit
\* is called; consuming_ is released only by the commit of a bound
\* transaction, so an explicit commit followed by the destructor releases
\* it once and the second commit releases nothing.
C36_TryConsumeLockDiscipline ==
    /\ [](\A t \in Drainers :
            /\ ReturnedNotConsumed(t) =>
                  inserting_ # t /\ consuming_ # t /\ buffer_[t] = 0
            /\ ReturnedSuccess(t) =>
                  /\ outcome[t] = "success"
                  /\ consuming_ = t /\ inserting_ # t /\ buffer_[t] # 0)
    /\ [][ReleasedByBoundCommit /\ SecondCommitReleasesNothing]_vars

\* the user thread has committed its transaction twice and another consumer
\* has the lock and a bound transaction; the service was turned away once
C36_Witness ==
    /\ pc["usr"] = "try_drain" /\ outcome["usr"] = "success" /\ buffer_["usr"] = 0
    /\ consuming_ = "svc" /\ buffer_["svc"] # 0
    /\ ncalls >= 1

\* ------------------------------------------------- the submit operations
SinkOnly == ostream_ # "NULL" /\ istream_ = "NULL"
SourceOnly == ostream_ = "NULL" /\ istream_ # "NULL"

\* C37: every pointer that the apply of a work item has dereferenced, after
\* the assertions of drain passed for the item, is bound; and the
\* set-state item is not turned away by the assertions of drain on a stream
\* that has only a source.
C37_ApplyUsesBoundReference ==
    /\ \A u \in used : u.bound
    /\ (SourceOnly /\ failed = "attempting to write") =>
           worklets[went_through + 1] # "setstate"

\* C38: no call of allocator::impl::allocate is given the size 0.
C38_AllocateSizeNonZero ==
    /\ requested # 0 \/ lastOp \notin {"add", "allocate"}
    /\ failed # "0 != size"


====
